---------------------------- MODULE Spec2Model ----------------------------
(***************************************************************************)
(* A model of the documentation index of doc-update-assistant:             *)
(*   - the markdown sectionizer and the section ids                        *)
(*     (services/document_processor.py, _parse_markdown_sections ...),     *)
(*   - the keyword scorer (_keyword_search_sections),                      *)
(*   - the DocumentProcessor object: section store, embedding cache,       *)
(*     dense matrix with its dirty flag, query-embedding cache, and the    *)
(*     operations load_documents_from_json_file,                           *)
(*     generate_section_embeddings and search_sections.                    *)
(*                                                                         *)
(* Text is modelled by TLA+ strings, character by character (Len, SubSeq   *)
(* and \o act on strings).  The backquote cannot be written in a TLA+      *)
(* string; the character "~" stands for it, so the fenced-code marker of   *)
(* markdown is "~~~" here.                                                 *)
(*                                                                         *)
(* Two specifications share the variables:                                 *)
(*   SpecPure  applies the pure functions to inputs drawn from bounded     *)
(*             sets (args holds the inputs, ret the result);               *)
(*   Spec      is the DocumentProcessor as a state machine;                *)
(*   SpecRedis is a Redis server with one client that writes through       *)
(*             RedisEmbeddingService.batch_store_embeddings and one that   *)
(*             reads through get_all_embeddings.                           *)
(***************************************************************************)
EXTENDS Integers, Sequences, FiniteSets, TLC

VARIABLES
    args,                     \* SpecPure: the inputs of the call
    ret,                      \* SpecPure: its result ([done |-> FALSE] before)
    documents,                \* self.documents: doc id -> Document (insertion-ordered)
    sections,                 \* self.sections: section id -> DocumentSection (insertion-ordered)
    embeddings,               \* self.embeddings: section id -> vector (insertion-ordered)
    embeddings_model,         \* TRUE iff self.embeddings_model is not None
    embedding_matrix,         \* self.embedding_matrix: rows, << >> for None
    section_ids_list,         \* self.section_ids_list
    query_embedding_cache,    \* self.query_embedding_cache (insertion-ordered)
    embedding_matrix_dirty,   \* self._embedding_matrix_dirty
    call,                     \* the last call of the processor: inputs, path taken, result
    embedded_from,            \* for each id of self.embeddings, the text its vector was made of
    redis_keys,               \* SpecRedis: the keys of the Redis server
    redis_calls,              \* SpecRedis: the calls in progress, one writer and one reader
    suggestions_store         \* routers/suggestions.py: suggestion id -> UpdateSuggestion

pureVars == <<args, ret>>
redisVars == <<redis_keys, redis_calls>>
procVars == <<documents, sections, embeddings, embeddings_model, embedding_matrix,
              section_ids_list, query_embedding_cache, embedding_matrix_dirty, call,
              embedded_from, redis_keys, redis_calls,
              suggestions_store>>
vars == <<args, ret, documents, sections, embeddings, embeddings_model,
          embedding_matrix, section_ids_list, query_embedding_cache,
          embedding_matrix_dirty, call, embedded_from, redis_keys, redis_calls,
          suggestions_store>>

(***************************************************************************)
(* Bounds of the model.                                                    *)
(***************************************************************************)
MaxLines == 3          \* lines per document given to the sectionizer
MaxLineStart == 2      \* line_start values given to _generate_section_id
MaxLimit == 2          \* limit values given to the searches
MaxDiffLines == 3      \* lines per text given to the diff service
MaxContext == 3        \* context_lines values given to the diff service
MaxMapping == 2        \* ids in a mapping given to batch_store_embeddings
MaxQueries == 110      \* distinct queries given to the searches of SpecCache
MaxSuggestions == 2     \* suggestions the AI service returns to one request
MaxClock == 1           \* values of datetime.now()
MaxDirFiles == 3       \* JSON files in a directory given to the directory load

(***************************************************************************)
(* Python's str operations, on strings.                                    *)
(***************************************************************************)
Char(s, i) == SubSeq(s, i, i)

\* str.isspace for the characters of the model
IsSpace(c) == c \in {" ", "\t", "\r", "\n"}

RECURSIVE LStrip(_)
LStrip(s) ==
    IF Len(s) > 0 /\ IsSpace(Char(s, 1)) THEN LStrip(SubSeq(s, 2, Len(s))) ELSE s

RECURSIVE RStrip(_)
RStrip(s) ==
    IF Len(s) > 0 /\ IsSpace(Char(s, Len(s))) THEN RStrip(SubSeq(s, 1, Len(s) - 1)) ELSE s

\* s.strip()
Strip(s) == RStrip(LStrip(s))

\* s.startswith(p)
StartsWith(s, p) == Len(s) >= Len(p) /\ SubSeq(s, 1, Len(p)) = p

\* t in s  (substring; the empty string is in every string)
Contains(s, t) ==
    \E i \in 0..(Len(s) - Len(t)) : SubSeq(s, i + 1, i + Len(t)) = t

\* the position of the first sep in s, 0 if none (sep is one character)
RECURSIVE FindChar(_, _, _)
FindChar(s, sep, i) ==
    IF i > Len(s) THEN 0
    ELSE IF Char(s, i) = sep THEN i
    ELSE FindChar(s, sep, i + 1)

\* s.split(sep) for a one-character sep: never empty, [""] for ""
RECURSIVE SplitOn(_, _)
SplitOn(s, sep) ==
    LET k == FindChar(s, sep, 1) IN
    IF k = 0 THEN <<s>>
    ELSE <<SubSeq(s, 1, k - 1)>> \o SplitOn(SubSeq(s, k + 1, Len(s)), sep)

\* sep.join(parts)
RECURSIVE Join(_, _)
Join(parts, sep) ==
    IF Len(parts) = 0 THEN ""
    ELSE IF Len(parts) = 1 THEN parts[1]
    ELSE parts[1] \o sep \o Join(Tail(parts), sep)

\* the length of the leading run of non-space characters of s
RECURSIVE WordLen(_, _)
WordLen(s, i) ==
    IF i > Len(s) \/ IsSpace(Char(s, i)) THEN i - 1 ELSE WordLen(s, i + 1)

\* s.split(): the maximal runs of non-space characters
RECURSIVE SplitWs(_)
SplitWs(s) ==
    LET t == LStrip(s) IN
    IF t = "" THEN << >>
    ELSE LET k == WordLen(t, 1) IN
         <<SubSeq(t, 1, k)>> \o SplitWs(SubSeq(t, k + 1, Len(t)))

UpperChars == "ABCDEFGHIJKLMNOPQRSTUVWXYZ"
LowerChars == "abcdefghijklmnopqrstuvwxyz"

LowerChar(c) ==
    LET k == FindChar(UpperChars, c, 1) IN
    IF k = 0 THEN c ELSE Char(LowerChars, k)

\* s.lower()
RECURSIVE Lower(_)
Lower(s) ==
    IF s = "" THEN "" ELSE LowerChar(Char(s, 1)) \o Lower(SubSeq(s, 2, Len(s)))

\* hashlib.md5(s.encode()).hexdigest(), taken as a collision-free hash: the
\* digest is modelled by the hashed text under a tag.
Md5Hex(s) == "md5(" \o s \o ")"

(***************************************************************************)
(* The sectionizer.                                                        *)
(***************************************************************************)
Fence == "~~~"     \* stands for the three backquotes of a fenced code block

_generate_doc_id(file_path) == Md5Hex(file_path)

\* a variant that leaves the start line out of the hashed text
_generate_section_id_no_line(title, file_path, line_start) ==
    Md5Hex(file_path \o ":" \o title)

_generate_section_id(title, file_path, line_start) ==
    Md5Hex(file_path \o ":" \o title \o ":" \o ToString(line_start))

_create_section(title, content, file_path, line_start, line_end, header_level) ==
    LET stripped == Strip(content) IN
    [ id           |-> _generate_section_id(title, file_path, line_start),
      title        |-> title,
      content      |-> stripped,
      file_path    |-> file_path,
      line_start   |-> line_start,
      line_end     |-> line_end,
      section_type |-> IF Contains(stripped, Fence) THEN "code" ELSE "markdown",
      header_level |-> header_level,
      has_code     |-> Contains(stripped, Fence),
      word_count   |-> Len(SplitWs(stripped)),
      char_count   |-> Len(stripped) ]

\* the length of the leading run of '#' of s
RECURSIVE HashRun(_, _)
HashRun(s, i) ==
    IF i <= Len(s) /\ Char(s, i) = "#" THEN HashRun(s, i + 1) ELSE i - 1

\* re.match(r'^(#+)\s*(.+)', s) for a stripped s that starts with '#':
\* (#+) and \s* are greedy and (.+) needs one character, so a line of '#' only
\* gives its last '#' to the title, and the single "#" does not match.
\* [matched, level = len(group(1)), title = group(2).strip()]
HeaderMatch(s) ==
    LET h    == HashRun(s, 1)
        rest == SubSeq(s, h + 1, Len(s))
    IN  IF rest = ""
        THEN IF h >= 2 THEN [matched |-> TRUE, level |-> h - 1, title |-> "#"]
                       ELSE [matched |-> FALSE, level |-> 0, title |-> ""]
        ELSE [matched |-> TRUE, level |-> h, title |-> Strip(LStrip(rest))]

\* the loop of _parse_sections_from_lines from line index i (0-based) on; st holds
\* the loop's variables.  current_section = "" stands for None: `if
\* current_section` is false for both, and a matched title is never empty.
RECURSIVE ParseLoop(_, _, _, _)
ParseLoop(lines, file_path, i, st) ==
    IF i >= Len(lines)
    THEN IF st.current_section # ""
         THEN Append(st.sections,
                     _create_section(st.current_section, Join(st.section_content, "\n"),
                                     file_path, st.line_start, Len(lines) - 1,
                                     st.header_level))
         ELSE st.sections
    ELSE
      LET line == lines[i + 1] IN
      IF StartsWith(Strip(line), "#")
      THEN LET closed ==
                 IF st.current_section # ""
                 THEN Append(st.sections,
                             _create_section(st.current_section,
                                             Join(st.section_content, "\n"),
                                             file_path, st.line_start, i - 1,
                                             st.header_level))
                 ELSE st.sections
               m == HeaderMatch(Strip(line))
           IN  IF m.matched
               THEN ParseLoop(lines, file_path, i + 1,
                              [ sections        |-> closed,
                                current_section |-> m.title,
                                section_content |-> << >>,
                                line_start      |-> i,
                                header_level    |-> m.level ])
               ELSE ParseLoop(lines, file_path, i + 1,
                              [st EXCEPT !.sections = closed])
      ELSE ParseLoop(lines, file_path, i + 1,
                     [st EXCEPT !.section_content = Append(@, line)])

_parse_sections_from_lines(lines, file_path) ==
    ParseLoop(lines, file_path, 0,
              [ sections        |-> << >>,
                current_section |-> "",
                section_content |-> << >>,
                line_start      |-> 0,
                header_level    |-> 0 ])

_create_default_section(content, file_path) ==
    _create_section("Main Content", content, file_path, 0,
                    Len(SplitOn(content, "\n")) - 1, 1)

_parse_markdown_sections(content, file_path) ==
    LET lines == SplitOn(content, "\n")
        secs  == _parse_sections_from_lines(lines, file_path)
    IN  IF secs = << >> THEN <<_create_default_section(content, file_path)>> ELSE secs

(***************************************************************************)
(* The sectionizer of RedisDocumentProcessor.  Its _create_section and     *)
(* _generate_section_id are those of DocumentProcessor, statement by       *)
(* statement.                                                              *)
(***************************************************************************)
\* the length of the leading run of 's' of s from position i
RECURSIVE SRun(_, _)
SRun(s, i) ==
    IF i <= Len(s) /\ Char(s, i) = "s" THEN 1 + SRun(s, i + 1) ELSE 0

\* re.match(r'^(#+)\\s*(.+)', s) for a stripped s that starts with '#': in the
\* raw string the two backslashes are the regex of one literal backslash, and
\* s* is a run of the letter s.  (#+) takes the whole run of '#' (giving one
\* back would leave a '#' where the backslash must be), s* gives back one 's'
\* if it would leave nothing to (.+).
\* [matched, level = len(group(1)), title = group(2).strip()]
RedisHeaderMatch(s) ==
    LET h    == HashRun(s, 1)
        rest == SubSeq(s, h + 2, Len(s))              \* what follows the backslash
        run  == IF SRun(rest, 1) = Len(rest) THEN Len(rest) - 1 ELSE SRun(rest, 1)
    IN  IF h + 1 <= Len(s) /\ Char(s, h + 1) = "\\" /\ rest # ""
        THEN [matched |-> TRUE, level |-> h,
              title |-> Strip(SubSeq(rest, run + 1, Len(rest)))]
        ELSE [matched |-> FALSE, level |-> 0, title |-> ""]

\* the loop of RedisDocumentProcessor._parse_markdown_sections from line index i
\* (0-based) on; st holds the loop's variables, current_section = "" for None
RECURSIVE RedisParseLoop(_, _, _, _)
RedisParseLoop(lines, file_path, i, st) ==
    IF i >= Len(lines)
    THEN IF st.current_section # ""
         THEN Append(st.sections,
                     _create_section(st.current_section, Join(st.section_content, "\n"),
                                     file_path, st.line_start, Len(lines) - 1,
                                     st.header_level))
         ELSE st.sections
    ELSE
      LET line == lines[i + 1] IN
      IF StartsWith(Strip(line), "#")
      THEN LET closed ==
                 IF st.current_section # ""
                 THEN Append(st.sections,
                             _create_section(st.current_section,
                                             Join(st.section_content, "\n"),
                                             file_path, st.line_start, i - 1,
                                             st.header_level))
                 ELSE st.sections
               m == RedisHeaderMatch(Strip(line))
           IN  IF m.matched
               THEN RedisParseLoop(lines, file_path, i + 1,
                                   [ sections        |-> closed,
                                     current_section |-> m.title,
                                     section_content |-> << >>,
                                     line_start      |-> i,
                                     header_level    |-> m.level ])
               ELSE RedisParseLoop(lines, file_path, i + 1,
                                   [st EXCEPT !.sections = closed])
      ELSE RedisParseLoop(lines, file_path, i + 1,
                          [st EXCEPT !.section_content = Append(@, line)])

\* RedisDocumentProcessor._parse_markdown_sections(content, file_path)
Redis_parse_markdown_sections(content, file_path) ==
    LET lines == SplitOn(content, "\n")
        secs  == RedisParseLoop(lines, file_path, 0,
                                [ sections        |-> << >>,
                                  current_section |-> "",
                                  section_content |-> << >>,
                                  line_start      |-> 0,
                                  header_level    |-> 0 ])
    IN  IF secs = << >>
        THEN <<_create_section("Main Content", content, file_path, 0,
                               Len(lines) - 1, 1)>>
        ELSE secs


(***************************************************************************)
(* Python dicts keep insertion order: a dict is a sequence of records with *)
(* distinct keys (field id).                                               *)
(***************************************************************************)
\* the index of key k in dict d, 0 if absent
RECURSIVE DictIndex(_, _, _)
DictIndex(d, k, i) ==
    IF i > Len(d) THEN 0
    ELSE IF d[i].id = k THEN i
    ELSE DictIndex(d, k, i + 1)

\* k in d
DictHas(d, k) == DictIndex(d, k, 1) # 0

\* d[k] = rec  (rec.id = k): an existing key keeps its place
DictPut_append(d, rec) == Append(d, rec)

DictPut(d, rec) ==
    LET i == DictIndex(d, rec.id, 1) IN
    IF i = 0 THEN Append(d, rec) ELSE [d EXCEPT ![i] = rec]

\* d[k] for a key that is present
DictGet(d, k) == d[DictIndex(d, k, 1)]

\* list(d.keys())
DictKeys(d) == [i \in 1..Len(d) |-> d[i].id]

\* seq[:n] of Python, for any integer n
PyPrefix(seq, n) ==
    LET m == IF n >= 0 THEN (IF n < Len(seq) THEN n ELSE Len(seq))
                       ELSE (IF Len(seq) + n > 0 THEN Len(seq) + n ELSE 0)
    IN  SubSeq(seq, 1, m)

(***************************************************************************)
(* The inputs of Spec: the JSON files the processor is given (path,        *)
(* 'markdown', metadata title) and the queries it is searched with.        *)
(***************************************************************************)
Range(f) == { f[i] : i \in DOMAIN f }

Files ==
    { [path |-> "p", markdown |-> "# Tool\n# Misc\ntool", title |-> "P"],
      [path |-> "q", markdown |-> "intro\n# Fn\nrunner", title |-> "Q"] }

Queries == { "Tool", "zz" }

(***************************************************************************)
(* The keyword scorer.                                                     *)
(***************************************************************************)
\* the agents_terms table of _keyword_search_sections
agents_terms ==
    << [term |-> "agent", bonus |-> 5], [term |-> "handoff", bonus |-> 5],
       [term |-> "guardrail", bonus |-> 5], [term |-> "tool", bonus |-> 3],
       [term |-> "runner", bonus |-> 3], [term |-> "instruction", bonus |-> 2],
       [term |-> "function", bonus |-> 2] >>

RECURSIVE TermsScore(_, _, _)
TermsScore(terms, title_lower, content_lower) ==
    IF terms = << >> THEN 0
    ELSE (IF Contains(title_lower, Head(terms)) THEN 10 ELSE 0)
         + (IF Contains(content_lower, Head(terms)) THEN 1 ELSE 0)
         + TermsScore(Tail(terms), title_lower, content_lower)

\* the bonus loop over agents_terms
RECURSIVE BonusScore(_, _)
BonusScore(table, content_lower) ==
    IF table = << >> THEN 0
    ELSE (IF Contains(content_lower, Head(table).term) THEN Head(table).bonus ELSE 0)
         + BonusScore(Tail(table), content_lower)

\* a variant with the weights of the title and of the body exchanged
KeywordScore_weights_swapped(section, query) ==
    LET query_lower   == Lower(query)
        query_terms   == SplitWs(query_lower)
        title_lower   == Lower(section.title)
        content_lower == Lower(section.content)
    IN  TermsScore(query_terms, content_lower, title_lower)
        + (IF Contains(title_lower, query_lower) THEN 5 ELSE 0)
        + (IF Contains(content_lower, query_lower) THEN 20 ELSE 0)
        + BonusScore(agents_terms, content_lower)

\* the score the loop body of _keyword_search_sections gives one section
KeywordScore(section, query) ==
    LET query_lower   == Lower(query)
        query_terms   == SplitWs(query_lower)
        title_lower   == Lower(section.title)
        content_lower == Lower(section.content)
    IN  TermsScore(query_terms, title_lower, content_lower)
        + (IF Contains(title_lower, query_lower) THEN 20 ELSE 0)
        + (IF Contains(content_lower, query_lower) THEN 5 ELSE 0)
        + BonusScore(agents_terms, content_lower)

\* a variant that puts x before the entries of equal score
RECURSIVE InsertByScore_equal_first(_, _)
InsertByScore_equal_first(sorted, x) ==
    IF sorted = << >> THEN <<x>>
    ELSE IF Head(sorted).score > x.score
         THEN <<Head(sorted)>> \o InsertByScore_equal_first(Tail(sorted), x)
         ELSE <<x>> \o sorted

\* x put into a list sorted by descending score, behind every entry whose score
\* is not smaller: results.sort(key=..., reverse=True) is stable
RECURSIVE InsertByScore(_, _)
InsertByScore(sorted, x) ==
    IF sorted = << >> THEN <<x>>
    ELSE IF Head(sorted).score >= x.score
         THEN <<Head(sorted)>> \o InsertByScore(Tail(sorted), x)
         ELSE <<x>> \o sorted

RECURSIVE SortByScore(_, _)
SortByScore(scored, acc) ==
    IF scored = << >> THEN acc
    ELSE SortByScore(Tail(scored), InsertByScore(acc, Head(scored)))

\* KeywordScore tabulated for the sections of Files and the queries of Spec, so
\* that each score is computed once and not in every step
FileTexts ==
    { <<sec.title, sec.content>> :
        sec \in UNION { Range(_parse_markdown_sections(f.markdown, f.path)) : f \in Files } }

ScoreTable ==
    [ t \in FileTexts, q \in Queries |->
        KeywordScore([title |-> t[1], content |-> t[2]], q) ]

SectionScore(section, query) == ScoreTable[<<section.title, section.content>>, query]

\* the (section, score) pairs with score > 0, in the order of the store
RECURSIVE ScoredSections(_, _)
ScoredSections(secs, query) ==
    IF secs = << >> THEN << >>
    ELSE LET sc == SectionScore(Head(secs), query) IN
         (IF sc > 0 THEN <<[section |-> Head(secs), score |-> sc]>> ELSE << >>)
         \o ScoredSections(Tail(secs), query)

\* self._keyword_search_sections(query, limit) over the section store secs
_keyword_search_sections(secs, query, limit) ==
    LET results == SortByScore(ScoredSections(secs, query), << >>)
        top     == PyPrefix(results, limit)
    IN  [i \in 1..Len(top) |-> top[i].section]

(***************************************************************************)
(* Vectors: sequences of integers.  A cosine similarity is kept as the     *)
(* pair (dot product, squared norm of the row); the norm of the query is   *)
(* common to all rows of one search.                                       *)
(***************************************************************************)
RECURSIVE Dot(_, _)
Dot(a, b) == IF a = << >> THEN 0 ELSE a[1] * b[1] + Dot(Tail(a), Tail(b))

NormSq(a) == Dot(a, a)

\* the similarity threshold 0.1 of _fast_embedding_search, as ThresholdNum/ThresholdDen
ThresholdNum == 1
ThresholdDen == 10

\* the entry of np.dot(matrix, query/|query|) for one row: rows are divided by
\* max(norm, 1e-8), so a zero row has similarity 0
RowSim(row, q) ==
    IF NormSq(row) = 0 THEN [num |-> 0, den |-> 1]
    ELSE [num |-> Dot(row, q), den |-> NormSq(row)]

\* x.num/sqrt(x.den) < y.num/sqrt(y.den)
SimLess(x, y) ==
    IF x.num < 0 /\ y.num >= 0 THEN TRUE
    ELSE IF x.num >= 0 /\ y.num < 0 THEN FALSE
    ELSE IF x.num >= 0 THEN x.num * x.num * y.den < y.num * y.num * x.den
    ELSE x.num * x.num * y.den > y.num * y.num * x.den

\* similarity > 0.1, the similarity being x.num/(sqrt(x.den)*sqrt(qn)), qn = |query|^2
AboveThreshold(x, qn) ==
    /\ x.num > 0
    /\ ThresholdDen * ThresholdDen * x.num * x.num
         > ThresholdNum * ThresholdNum * x.den * qn

\* np.argsort(similarities): the indices by ascending similarity, equal
\* similarities in index order (the insertion sort numpy uses on short arrays)
RECURSIVE InsertAscending(_, _, _)
InsertAscending(sorted, i, sims) ==
    IF sorted = << >> THEN <<i>>
    ELSE IF SimLess(sims[i], sims[Head(sorted)])
         THEN <<i>> \o sorted
         ELSE <<Head(sorted)>> \o InsertAscending(Tail(sorted), i, sims)

RECURSIVE ArgSortFrom(_, _, _)
ArgSortFrom(sims, i, acc) ==
    IF i > Len(sims) THEN acc
    ELSE ArgSortFrom(sims, i + 1, InsertAscending(acc, i, sims))

ArgSort(sims) == ArgSortFrom(sims, 1, << >>)

\* seq[::-1]
Reverse(seq) == [i \in 1..Len(seq) |-> seq[Len(seq) + 1 - i]]

(***************************************************************************)
(* The DocumentProcessor.                                                  *)
(***************************************************************************)
\* the capacity of the query-embedding cache and the number of entries evicted
QueryCacheMax == 100
QueryCacheEvict == 50

\* self._embed_text(text): resp is what the provider does if it is called
\* ([ok |-> FALSE] for an error or a timeout); None is [ok |-> FALSE]
_embed_text(model, resp) ==
    IF ~model THEN [ok |-> FALSE, vec |-> << >>]
    ELSE IF resp.ok THEN [ok |-> TRUE, vec |-> resp.vec]
    ELSE [ok |-> FALSE, vec |-> << >>]

\* a variant that caches the failed embedding as well
_get_cached_query_embedding_caching_failure(cache, model, query, resp) ==
    LET query_hash == Md5Hex(query) IN
    IF DictHas(cache, query_hash)
    THEN [emb |-> [ok |-> DictGet(cache, query_hash).vec # << >>,
                   vec |-> DictGet(cache, query_hash).vec],
          cache |-> cache, asked |-> FALSE]
    ELSE LET embedding == _embed_text(model, resp) IN
         [emb |-> embedding,
          cache |-> DictPut(cache, [id |-> query_hash, vec |-> embedding.vec]),
          asked |-> TRUE]

\* a variant that evicts the newest entries, the one just inserted among them
_get_cached_query_embedding_evict_newest(cache, model, query, resp) ==
    LET query_hash == Md5Hex(query) IN
    IF DictHas(cache, query_hash)
    THEN [emb |-> [ok |-> TRUE, vec |-> DictGet(cache, query_hash).vec],
          cache |-> cache, asked |-> FALSE]
    ELSE LET embedding == _embed_text(model, resp) IN
         IF embedding.ok
         THEN LET stored == DictPut(cache, [id |-> query_hash, vec |-> embedding.vec]) IN
              [emb |-> embedding,
               cache |-> IF Len(stored) > QueryCacheMax
                         THEN SubSeq(stored, 1, Len(stored) - QueryCacheEvict)
                         ELSE stored,
               asked |-> TRUE]
         ELSE [emb |-> embedding, cache |-> cache, asked |-> TRUE]

\* self._get_cached_query_embedding(query): [emb, cache, asked], asked telling
\* whether the embedding had to be obtained (it was not cached)
_get_cached_query_embedding(cache, model, query, resp) ==
    LET query_hash == Md5Hex(query) IN
    IF DictHas(cache, query_hash)
    THEN [emb |-> [ok |-> TRUE, vec |-> DictGet(cache, query_hash).vec],
          cache |-> cache, asked |-> FALSE]
    ELSE LET embedding == _embed_text(model, resp) IN
         IF embedding.ok
         THEN LET stored == DictPut(cache, [id |-> query_hash, vec |-> embedding.vec]) IN
              [emb |-> embedding,
               cache |-> IF Len(stored) > QueryCacheMax
                         THEN SubSeq(stored, QueryCacheEvict + 1, Len(stored))
                         ELSE stored,
               asked |-> TRUE]
         ELSE [emb |-> embedding, cache |-> cache, asked |-> TRUE]

\* np.vstack(rows) raises unless all rows have one length
SameLength(rows) == \A i \in 1..Len(rows) : Len(rows[i]) = Len(rows[1])

\* self._build_embedding_matrix() on m = [ids, matrix, dirty]: the rows are kept as
\* they are, their division by the norm is part of RowSim.  section_ids_list is
\* assigned before np.vstack can raise.
_build_embedding_matrix(embs, m) ==
    IF embs = << >> \/ ~m.dirty THEN [m EXCEPT !.raised = FALSE]
    ELSE LET ids  == DictKeys(embs)
             rows == [i \in 1..Len(embs) |-> embs[i].vec]
         IN  IF SameLength(rows)
             THEN [ids |-> ids, matrix |-> rows, dirty |-> FALSE, raised |-> FALSE]
             ELSE [ids |-> ids, matrix |-> m.matrix, dirty |-> m.dirty, raised |-> TRUE]

\* a variant without the threshold test
RECURSIVE PickSections_no_threshold(_, _, _, _, _)
PickSections_no_threshold(top, sims, qn, ids, secs) ==
    IF top = << >> THEN << >>
    ELSE LET idx == Head(top) IN
         (IF DictHas(secs, ids[idx]) THEN <<DictGet(secs, ids[idx])>> ELSE << >>)
         \o PickSections_no_threshold(Tail(top), sims, qn, ids, secs)

\* the loop over top_indices of _fast_embedding_search
RECURSIVE PickSections(_, _, _, _, _)
PickSections(top, sims, qn, ids, secs) ==
    IF top = << >> THEN << >>
    ELSE LET idx == Head(top) IN
         (IF AboveThreshold(sims[idx], qn) /\ DictHas(secs, ids[idx])
          THEN <<DictGet(secs, ids[idx])>> ELSE << >>)
         \o PickSections(Tail(top), sims, qn, ids, secs)

\* self._fast_embedding_search(query_emb, limit): [results, raised, m], m the
\* matrix state it leaves
_fast_embedding_search(secs, embs, m0, query_emb, limit) ==
    LET m == IF m0.dirty THEN _build_embedding_matrix(embs, m0)
                         ELSE [m0 EXCEPT !.raised = FALSE]
    IN  IF m.raised THEN [results |-> << >>, raised |-> TRUE, m |-> m]
        ELSE IF m.matrix = << >> \/ Len(m.ids) = 0
             THEN [results |-> << >>, raised |-> FALSE, m |-> m]
        ELSE IF NormSq(query_emb) = 0
             THEN [results |-> << >>, raised |-> FALSE, m |-> m]
        ELSE IF Len(m.matrix[1]) # Len(query_emb)     \* np.dot: shapes not aligned
             THEN [results |-> << >>, raised |-> TRUE, m |-> m]
        ELSE LET sims == [i \in 1..Len(m.matrix) |-> RowSim(m.matrix[i], query_emb)]
                 top_indices == PyPrefix(Reverse(ArgSort(sims)), limit)
             IN  [results |-> PickSections(top_indices, sims, NormSq(query_emb), m.ids, secs),
                  raised |-> FALSE, m |-> m]

\* a variant that appends a keyword result whether or not its id is present
RECURSIVE TopUp_no_id_test(_, _, _, _)
TopUp_no_id_test(results, keyword_results, existing_ids, limit) ==
    IF keyword_results = << >> THEN results
    ELSE LET more == Append(results, Head(keyword_results)) IN
         TopUp_no_id_test(more, Tail(keyword_results), existing_ids, limit)

\* the loop of search_sections that appends the keyword results
RECURSIVE TopUp(_, _, _, _)
TopUp(results, keyword_results, existing_ids, limit) ==
    IF keyword_results = << >> THEN results
    ELSE IF Head(keyword_results).id \notin existing_ids
         THEN LET more == Append(results, Head(keyword_results)) IN
              IF Len(more) >= limit THEN more
              ELSE TopUp(more, Tail(keyword_results), existing_ids, limit)
         ELSE TopUp(results, Tail(keyword_results), existing_ids, limit)

SectionIds(secs) == { secs[i].id : i \in 1..Len(secs) }

\* the ids of a list of sections, in its order
IdsOf(secs) == [i \in 1..Len(secs) |-> secs[i].id]

\* self.search_sections(query, limit): the record of the call, with the cache
\* and the matrix state it leaves.  path tells the return statement taken; sem is
\* the result of _fast_embedding_search, kw that of the keyword scorer when it
\* was called (with limit kw_limit).  raised: an exception left search_sections.
search_sections(secs, embs, cache, model, m0, query, limit, resp) ==
    LET base == [path |-> "", query |-> query, limit |-> limit, raised |-> FALSE,
                 asked |-> FALSE, emb |-> [ok |-> FALSE, vec |-> << >>],
                 sem |-> << >>, kw_called |-> TRUE, kw_limit |-> limit,
                 kw |-> _keyword_search_sections(secs, query, limit),
                 result |-> _keyword_search_sections(secs, query, limit),
                 cache |-> cache, m |-> [m0 EXCEPT !.raised = FALSE]]
    IN
    IF embs = << >> THEN [base EXCEPT !.path = "no_embeddings"]
    ELSE
      LET got == _get_cached_query_embedding(cache, model, query, resp) IN
      IF ~got.emb.ok
      THEN [base EXCEPT !.path = "no_query_embedding", !.asked = got.asked,
                        !.cache = got.cache]
      ELSE
        LET found == _fast_embedding_search(secs, embs, m0, got.emb.vec, limit) IN
        IF found.raised
        THEN [base EXCEPT !.path = "except", !.asked = got.asked, !.emb = got.emb,
                          !.cache = got.cache, !.m = found.m]
        ELSE IF Len(found.results) < limit
        THEN LET keyword_results ==
                     _keyword_search_sections(secs, query, limit - Len(found.results))
                 results == TopUp(found.results, keyword_results,
                                  SectionIds(found.results), limit)
             IN  [base EXCEPT !.path = "semantic", !.asked = got.asked, !.emb = got.emb,
                              !.sem = found.results,
                              !.kw_limit = limit - Len(found.results),
                              !.kw = keyword_results,
                              !.result = PyPrefix(results, limit),
                              !.cache = got.cache, !.m = found.m]
        ELSE [base EXCEPT !.path = "semantic", !.asked = got.asked, !.emb = got.emb,
                          !.sem = found.results, !.kw_called = FALSE, !.kw = << >>,
                          !.result = PyPrefix(found.results, limit),
                          !.cache = got.cache, !.m = found.m]

(***************************************************************************)
(* The diff service (services/diff_service.py).  difflib.unified_diff is   *)
(* the standard library's: SequenceMatcher without junk (lists under 200   *)
(* elements), its opcodes grouped with n lines of context, and the         *)
(* unified-diff token stream made of them, with lineterm = ''.             *)
(* Positions are Python's (from 0); a[i] of Python is a[i + 1] here.       *)
(***************************************************************************)
Max(a, b) == IF a > b THEN a ELSE b

Min(a, b) == IF a < b THEN a ELSE b

\* the position of the first line boundary ("\n" or "\r") of s from i, 0 if none
RECURSIVE FindBreak(_, _)
FindBreak(s, i) ==
    IF i > Len(s) THEN 0
    ELSE IF Char(s, i) \in {"\n", "\r"} THEN i
    ELSE FindBreak(s, i + 1)

\* s.splitlines(): the lines without their boundaries ("\n", "\r", "\r\n");
\* no line for "" and none after a final boundary
RECURSIVE SplitLines(_)
SplitLines(s) ==
    IF s = "" THEN << >>
    ELSE LET k == FindBreak(s, 1) IN
         IF k = 0 THEN <<s>>
         ELSE LET n == IF Char(s, k) = "\r" /\ k < Len(s) /\ Char(s, k + 1) = "\n"
                       THEN k + 1 ELSE k
              IN  <<SubSeq(s, 1, k - 1)>> \o SplitLines(SubSeq(s, n + 1, Len(s)))

\* a slice bound of Python for a list of length len: a negative one counts
\* from the end, and both are clipped to 0..len
PyIndex(len, i) == IF i < 0 THEN Max(len + i, 0) ELSE Min(i, len)

\* seq[lo:hi]
PySlice(seq, lo, hi) ==
    LET l == PyIndex(Len(seq), lo)
        h == PyIndex(Len(seq), hi)
    IN  IF l >= h THEN << >> ELSE SubSeq(seq, l + 1, h)

\* find_longest_match's j2len: the length of the longest common run that ends
\* with a[i] and b[j] and lies in a[alo:], b[blo:]
RECURSIVE RunEnd(_, _, _, _, _, _)
RunEnd(a, b, alo, blo, i, j) ==
    IF i < alo \/ j < blo THEN 0
    ELSE IF a[i + 1] # b[j + 1] THEN 0
    ELSE 1 + RunEnd(a, b, alo, blo, i - 1, j - 1)

\* the (k, i, j) of runs that find_longest_match keeps of those it meets: i
\* and j run upwards and a run replaces the best one only if it is longer, so
\* it is the longest run, of these the one that ends first in a, of these the
\* first in b; (0, alo - 1, blo - 1) if there is no run
BestRun(runs, alo, blo) ==
    IF runs = {} THEN <<0, alo - 1, blo - 1>>
    ELSE CHOOSE p \in runs :
           \A q \in runs :
              \/ q[1] < p[1]
              \/ q[1] = p[1] /\ p[2] < q[2]
              \/ q[1] = p[1] /\ p[2] = q[2] /\ p[3] <= q[3]

\* the block (besti, bestj, bestsize) of a run (k, i, j) that ends at i, j
BlockOf(run) == <<run[2] - run[1] + 1, run[3] - run[1] + 1, run[1]>>

\* SequenceMatcher.find_longest_match(alo, ahi, blo, bhi)
find_longest_match(a, b, alo, ahi, blo, bhi) ==
    BlockOf(BestRun({ r \in { <<RunEnd(a, b, alo, blo, p[1], p[2]), p[1], p[2]>> :
                                p \in (alo..(ahi - 1)) \X (blo..(bhi - 1)) } :
                        r[1] > 0 },
                    alo, blo))

\* the blocks get_matching_blocks collects for a[alo:ahi], b[blo:bhi], sorted:
\* the longest block x and the blocks of what lies before and after it
RECURSIVE MatchingBlocks(_, _, _, _, _, _)
RECURSIVE AroundBlock(_, _, _, _, _, _, _)
AroundBlock(a, b, alo, ahi, blo, bhi, x) ==
    IF x[3] = 0 THEN << >>
    ELSE (IF alo < x[1] /\ blo < x[2]
          THEN MatchingBlocks(a, b, alo, x[1], blo, x[2]) ELSE << >>)
         \o <<x>>
         \o (IF x[1] + x[3] < ahi /\ x[2] + x[3] < bhi
             THEN MatchingBlocks(a, b, x[1] + x[3], ahi, x[2] + x[3], bhi) ELSE << >>)

MatchingBlocks(a, b, alo, ahi, blo, bhi) ==
    AroundBlock(a, b, alo, ahi, blo, bhi, find_longest_match(a, b, alo, ahi, blo, bhi))

\* the loop of get_matching_blocks that collapses adjacent blocks; cur is
\* (i1, j1, k1)
RECURSIVE Collapse(_, _, _)
Collapse(blocks, cur, acc) ==
    IF blocks = << >>
    THEN (IF cur[3] # 0 THEN Append(acc, cur) ELSE acc)
    ELSE LET x == Head(blocks) IN
         IF cur[1] + cur[3] = x[1] /\ cur[2] + cur[3] = x[2]
         THEN Collapse(Tail(blocks), <<cur[1], cur[2], cur[3] + x[3]>>, acc)
         ELSE Collapse(Tail(blocks), x,
                       IF cur[3] # 0 THEN Append(acc, cur) ELSE acc)

\* SequenceMatcher(None, a, b).get_matching_blocks()
get_matching_blocks(a, b) ==
    Append(Collapse(MatchingBlocks(a, b, 0, Len(a), 0, Len(b)), <<0, 0, 0>>, << >>),
           <<Len(a), Len(b), 0>>)

\* the loop of get_opcodes over the matching blocks, from (i, j)
RECURSIVE Opcodes(_, _, _)
Opcodes(blocks, i, j) ==
    IF blocks = << >> THEN << >>
    ELSE LET ai   == Head(blocks)[1]
             bj   == Head(blocks)[2]
             size == Head(blocks)[3]
             tag  == IF i < ai /\ j < bj THEN "replace"
                     ELSE IF i < ai THEN "delete"
                     ELSE IF j < bj THEN "insert"
                     ELSE ""
         IN  (IF tag # "" THEN << <<tag, i, ai, j, bj>> >> ELSE << >>)
             \o (IF size # 0 THEN << <<"equal", ai, ai + size, bj, bj + size>> >>
                 ELSE << >>)
             \o Opcodes(Tail(blocks), ai + size, bj + size)

\* SequenceMatcher(None, a, b).get_opcodes()
get_opcodes(a, b) == Opcodes(get_matching_blocks(a, b), 0, 0)

\* whether get_grouped_opcodes yields the group left at the end of its loop
YieldLast_any(group) == group # << >>

YieldLast(group) ==
    group # << >> /\ ~(Len(group) = 1 /\ group[1][1] = "equal")

\* the loop of get_grouped_opcodes(n) over codes: group is the open group, acc
\* the groups yielded so far
RECURSIVE GroupLoop(_, _, _, _)
GroupLoop(codes, n, group, acc) ==
    IF codes = << >>
    THEN (IF YieldLast(group) THEN Append(acc, group) ELSE acc)
    ELSE LET c == Head(codes) IN
         IF c[1] = "equal" /\ c[3] - c[2] > n + n
         THEN GroupLoop(Tail(codes), n,
                        << <<c[1], Max(c[2], c[3] - n), c[3], Max(c[4], c[5] - n), c[5]>> >>,
                        Append(acc, Append(group,
                            <<c[1], c[2], Min(c[3], c[2] + n), c[4], Min(c[5], c[4] + n)>>)))
         ELSE GroupLoop(Tail(codes), n, Append(group, c), acc)

\* codes[0] of get_grouped_opcodes, cut to its last n lines if it is 'equal'
TrimFirst(codes, n) ==
    IF codes[1][1] = "equal"
    THEN [codes EXCEPT ![1] = <<@[1], Max(@[2], @[3] - n), @[3], Max(@[4], @[5] - n), @[5]>>]
    ELSE codes

\* codes[-1] of get_grouped_opcodes, cut to its first n lines if it is 'equal'
TrimLast(codes, n) ==
    IF codes[Len(codes)][1] = "equal"
    THEN [codes EXCEPT ![Len(codes)] =
            <<@[1], @[2], Min(@[3], @[2] + n), @[4], Min(@[5], @[4] + n)>>]
    ELSE codes

\* the codes of get_grouped_opcodes: one 'equal' opcode if there is none
CodesOrEqual(codes) ==
    IF codes = << >> THEN << <<"equal", 0, 1, 0, 1>> >> ELSE codes

\* SequenceMatcher(None, a, b).get_grouped_opcodes(n)
get_grouped_opcodes(a, b, n) ==
    GroupLoop(TrimLast(TrimFirst(CodesOrEqual(get_opcodes(a, b)), n), n), n, << >>, << >>)

\* difflib._format_range_unified(start, stop)
_format_range_unified(start, stop) ==
    LET length == stop - start IN
    IF length = 1 THEN ToString(start + 1)
    ELSE IF length = 0 THEN ToString(start) \o "," \o ToString(length)
    ELSE ToString(start + 1) \o "," \o ToString(length)

\* the lines of lines, each after the one-character prefix
RECURSIVE Prefixed(_, _)
Prefixed(prefix, lines) ==
    IF lines = << >> THEN << >>
    ELSE <<prefix \o Head(lines)>> \o Prefixed(prefix, Tail(lines))

\* the lines unified_diff yields for one opcode
CodeLines(a, b, c) ==
    IF c[1] = "equal" THEN Prefixed(" ", PySlice(a, c[2], c[3]))
    ELSE (IF c[1] \in {"replace", "delete"}
          THEN Prefixed("-", PySlice(a, c[2], c[3])) ELSE << >>)
         \o (IF c[1] \in {"replace", "insert"}
             THEN Prefixed("+", PySlice(b, c[4], c[5])) ELSE << >>)

\* the lines unified_diff yields for the opcodes of one group
RECURSIVE GroupLines(_, _, _)
GroupLines(a, b, group) ==
    IF group = << >> THEN << >>
    ELSE CodeLines(a, b, Head(group)) \o GroupLines(a, b, Tail(group))

\* the header unified_diff yields for a group
GroupHeader(first, last) ==
    "@@ -" \o _format_range_unified(first[2], last[3])
        \o " +" \o _format_range_unified(first[4], last[5]) \o " @@"

\* the header and the lines unified_diff yields for each group
RECURSIVE GroupsLines(_, _, _)
GroupsLines(a, b, groups) ==
    IF groups = << >> THEN << >>
    ELSE <<GroupHeader(Head(groups)[1], Head(groups)[Len(Head(groups))])>>
         \o GroupLines(a, b, Head(groups))
         \o GroupsLines(a, b, Tail(groups))

\* the lines unified_diff yields for the groups: the two file lines first
DiffLines(a, b, groups) ==
    IF groups = << >> THEN << >>
    ELSE <<"--- ", "+++ ">> \o GroupsLines(a, b, groups)

\* list(difflib.unified_diff(a, b, lineterm='', n=n))
unified_diff(a, b, n) == DiffLines(a, b, get_grouped_opcodes(a, b, n))

Digits == "0123456789"

\* whether s[i] is a decimal digit
IsDigit(s, i) == i <= Len(s) /\ FindChar(Digits, Char(s, i), 1) # 0

\* the number of digits of s from position i on
RECURSIVE DigitRun(_, _)
DigitRun(s, i) == IF IsDigit(s, i) THEN 1 + DigitRun(s, i + 1) ELSE 0

\* int(s) for a string of digits
RECURSIVE ParseInt(_)
ParseInt(s) ==
    IF s = "" THEN 0
    ELSE 10 * ParseInt(SubSeq(s, 1, Len(s) - 1))
         + (FindChar(Digits, Char(s, Len(s)), 1) - 1)

\* whether the text lit stands in s at position i
HasAt(s, i, lit) == i + Len(lit) - 1 <= Len(s) /\ SubSeq(s, i, i + Len(lit) - 1) = lit

\* the part (\d+),?(\d*) of the header's pattern: the two groups and the
\* position after them, for n1 digits from position i and n2 digits from p2
RangeGroups(s, i, n1, p2, n2) ==
    [ ok |-> n1 > 0, start |-> SubSeq(s, i, i + n1 - 1),
      count |-> SubSeq(s, p2, p2 + n2 - 1), next |-> p2 + n2 ]

\* the same from the position p2 after the optional comma
RangeCount(s, i, n1, p2) == RangeGroups(s, i, n1, p2, DigitRun(s, p2))

\* the same from the n1 digits of the first group
RangeStart(s, i, n1) ==
    RangeCount(s, i, n1, IF HasAt(s, i + n1, ",") THEN i + n1 + 1 ELSE i + n1)

\* (\d+),?(\d*) matched in s from position i
RangeMatch(s, i) == RangeStart(s, i, DigitRun(s, i))

\* the match of the header's pattern whose first range matched as old and
\* whose second range as new
HeaderGroups(header, old, new) ==
    [ ok |-> /\ HasAt(header, 1, "@@ -")
             /\ old.ok
             /\ HasAt(header, old.next, " +")
             /\ new.ok
             /\ HasAt(header, new.next, " @@"),
      old |-> old, new |-> new ]

\* the same from the first range
HeaderNew(header, old) == HeaderGroups(header, old, RangeMatch(header, old.next + 2))

\* re.match(r'@@ -(\d+),?(\d*) \+(\d+),?(\d*) @@', header)
HunkHeaderMatch(header) == HeaderNew(header, RangeMatch(header, 5))

\* DiffHunk(old_start=..., old_count=..., new_start=..., new_count=...,
\* old_lines=[], new_lines=[])
DiffHunk(old_start, old_count, new_start, new_count) ==
    [ old_start |-> old_start, old_count |-> old_count,
      new_start |-> new_start, new_count |-> new_count,
      old_lines |-> << >>, new_lines |-> << >> ]

\* int(match.group(n)) if match.group(n) else default
IntOr(group, default) == IF group # "" THEN ParseInt(group) ELSE default

\* the hunk of a match, or ok = FALSE for the ValueError raised without one
HunkOfMatch_count_zero(match) ==
    IF ~match.ok THEN [ok |-> FALSE, hunk |-> << >>]
    ELSE [ ok |-> TRUE,
           hunk |-> DiffHunk(ParseInt(match.old.start), IntOr(match.old.count, 0),
                             ParseInt(match.new.start), IntOr(match.new.count, 0)) ]

HunkOfMatch(match) ==
    IF ~match.ok THEN [ok |-> FALSE, hunk |-> << >>]
    ELSE [ ok |-> TRUE,
           hunk |-> DiffHunk(ParseInt(match.old.start), IntOr(match.old.count, 1),
                             ParseInt(match.new.start), IntOr(match.new.count, 1)) ]

\* _parse_hunk_header(header): ok and the new DiffHunk, or ok = FALSE
_parse_hunk_header(header) == HunkOfMatch(HunkHeaderMatch(header))

\* _add_line_to_hunk(hunk, line): the hunk after the call
_add_line_to_hunk_no_context(hunk, line) ==
    IF StartsWith(line, "-")
    THEN [hunk EXCEPT !.old_lines = Append(@, SubSeq(line, 2, Len(line)))]
    ELSE IF StartsWith(line, "+")
    THEN [hunk EXCEPT !.new_lines = Append(@, SubSeq(line, 2, Len(line)))]
    ELSE hunk

\* a variant that takes a line '--...' for a file header and leaves it out
_add_line_to_hunk_skip_dashes(hunk, line) ==
    IF StartsWith(line, "--")
    THEN hunk
    ELSE IF StartsWith(line, "-")
    THEN [hunk EXCEPT !.old_lines = Append(@, SubSeq(line, 2, Len(line)))]
    ELSE IF StartsWith(line, "+")
    THEN [hunk EXCEPT !.new_lines = Append(@, SubSeq(line, 2, Len(line)))]
    ELSE IF StartsWith(line, " ")
    THEN [hunk EXCEPT !.old_lines = Append(@, SubSeq(line, 2, Len(line))),
                      !.new_lines = Append(@, SubSeq(line, 2, Len(line)))]
    ELSE hunk

_add_line_to_hunk(hunk, line) ==
    IF StartsWith(line, "-")
    THEN [hunk EXCEPT !.old_lines = Append(@, SubSeq(line, 2, Len(line)))]
    ELSE IF StartsWith(line, "+")
    THEN [hunk EXCEPT !.new_lines = Append(@, SubSeq(line, 2, Len(line)))]
    ELSE IF StartsWith(line, " ")
    THEN [hunk EXCEPT !.old_lines = Append(@, SubSeq(line, 2, Len(line))),
                      !.new_lines = Append(@, SubSeq(line, 2, Len(line)))]
    ELSE hunk

\* the loop of _process_diff_lines over diff: current is << >> for None or
\* holds current_hunk; the result has raised = TRUE if a header raised
\* ValueError.  AtHeader is the loop's step at a line '@@...' parsed as h.
RECURSIVE ProcessLoop(_, _, _)
RECURSIVE AtHeader(_, _, _, _)
AtHeader(diff, hunks, current, h) ==
    IF ~h.ok THEN [raised |-> TRUE, hunks |-> << >>]
    ELSE ProcessLoop(Tail(diff), hunks \o current, <<h.hunk>>)

ProcessLoop(diff, hunks, current) ==
    IF diff = << >> THEN [raised |-> FALSE, hunks |-> hunks \o current]
    ELSE IF StartsWith(Head(diff), "@@")
    THEN AtHeader(diff, hunks, current, _parse_hunk_header(Head(diff)))
    ELSE IF current # << >>
    THEN ProcessLoop(Tail(diff), hunks, <<_add_line_to_hunk(current[1], Head(diff))>>)
    ELSE ProcessLoop(Tail(diff), hunks, current)

\* _process_diff_lines(diff)
_process_diff_lines(diff) == ProcessLoop(diff, << >>, << >>)

\* generate_diff_hunks(original, suggested, context_lines)
generate_diff_hunks(original, suggested, context_lines) ==
    _process_diff_lines(unified_diff(SplitLines(original), SplitLines(suggested),
                                     context_lines))

\* line in lines
InList(line, lines) == \E i \in 1..Len(lines) : lines[i] = line

\* len([line for line in these if line not in those])
CountNotIn(these, those) ==
    Cardinality({ i \in 1..Len(these) : ~InList(these[i], those) })

\* sum(len([... hunk.new_lines ... not in hunk.old_lines]) for hunk in hunks)
RECURSIVE SumAdditions(_)
SumAdditions(hunks) ==
    IF hunks = << >> THEN 0
    ELSE CountNotIn(Head(hunks).new_lines, Head(hunks).old_lines)
         + SumAdditions(Tail(hunks))

RECURSIVE SumDeletions(_)
SumDeletions(hunks) ==
    IF hunks = << >> THEN 0
    ELSE CountNotIn(Head(hunks).old_lines, Head(hunks).new_lines)
         + SumDeletions(Tail(hunks))

\* get_diff_stats(hunks)
get_diff_stats(hunks) ==
    [ additions |-> SumAdditions(hunks), deletions |-> SumDeletions(hunks),
      changes |-> Len(hunks) ]

(***************************************************************************)
(* SpecPure: the pure functions applied to inputs from bounded sets.       *)
(***************************************************************************)
\* the lines documents are made of: text, blank, headers with and without a
\* space after the marker, an indented header, a line of one '#', a fence
ParseLines == { "", "x", " y ", "# A", "##B", "  # A ", "#", "~~~", "#include",
                "#\\A" }

\* the sequences over S of length 0..n
RECURSIVE SeqsUpTo(_, _)
SeqsUpTo(S, n) ==
    IF n = 0 THEN { << >> }
    ELSE LET shorter == SeqsUpTo(S, n - 1) IN
         shorter \cup { Append(q, x) : q \in { r \in shorter : Len(r) = n - 1 }, x \in S }

\* the documents given to the sectionizer, as their lines: content is the
\* lines joined by "\n"
ParseDocs == SeqsUpTo(ParseLines, MaxLines) \ { << >> }
ParsePaths == { "p", "q" }

\* the (title, file_path, line_start) triples given to _generate_section_id;
\* titles and paths may hold the separator ':'
IdTitles == { "A", "B", "A:0" }
IdPaths == { "p", "p:A" }
IdTriples == { <<t, p, n>> : t \in IdTitles, p \in IdPaths, n \in 0..MaxLineStart }

\* the sections and queries given to the keyword scorer's loop body
AllTerms == "agent handoff guardrail tool runner instruction function"
LongQuery == "a a a a a a a a a a a a a a a a"
ScoreTitles == { "Api", "Misc", "a", LongQuery }
ScoreBodies == { "", "api", "api " \o AllTerms, LongQuery }
ScoreQueries == { "Api", " ", LongQuery }
ScoreSections == { [title |-> t, content |-> c] : t \in ScoreTitles, c \in ScoreBodies }

\* the texts given to the diff service: up to MaxDiffLines lines joined by
\* "\n", texts with a final newline and with an empty line, and the pair of
\* the specification's example
DiffLineSet == { "a", "b" }
DiffTexts ==
    { Join(ls, "\n") : ls \in SeqsUpTo(DiffLineSet, MaxDiffLines) }
        \cup { "a\n", "a\n\nb", "a\nb\nc", "a\nx\nc" }
        \cup { "-a", "+a\n a", "@@ -1 +1 @@\na" }

\* the context_lines values: the parameter is an unchecked int
DiffContexts == (-1)..MaxContext

NotCalled == [done |-> FALSE]

\* the section ids of the Redis model, and the reply to GET for a missing key
RedisIds == { "s" \o ToString(k) : k \in 1..MaxMapping }
Nil == [num |-> << >>, densq |-> 0]

\* a stored string that is no float32 array (its length is not a multiple of
\* four bytes): np.frombuffer raises ValueError on it
Truncated == [num |-> << >>, densq |-> -1]

\* the keys of the server: the set "sections:index" and the strings
\* "embedding:<id>" (Nil: no such key)
KeysOf(index, embedding) == [index |-> index, embedding |-> embedding]
NoKeys == KeysOf({}, [id \in RedisIds |-> Nil])

\* a Redis server without keys and no call of the service in progress
RedisIdle ==
    /\ redis_keys = NoKeys
    /\ redis_calls = [writer |-> [pc |-> "idle"], reader |-> [pc |-> "idle"]]

\* the processor's variables in SpecPure: a freshly constructed object
ProcIdle ==
    /\ documents = << >>
    /\ sections = << >>
    /\ embeddings = << >>
    /\ embeddings_model = FALSE
    /\ embedding_matrix = << >>
    /\ section_ids_list = << >>
    /\ query_embedding_cache = << >>
    /\ embedding_matrix_dirty = TRUE
    /\ call = [path |-> "none"]
    /\ embedded_from = << >>
    /\ suggestions_store = << >>
    /\ RedisIdle

InitPure ==
    /\ ret = NotCalled
    /\ ProcIdle
    /\ \/ \E ls \in ParseDocs, p \in ParsePaths :
             args = [op |-> "parse", lines |-> ls, content |-> Join(ls, "\n"),
                     file_path |-> p]
       \/ \E a \in IdTriples, b \in IdTriples :
             args = [op |-> "section_id", a |-> a, b |-> b]
       \/ \E a \in ScoreSections, b \in ScoreSections, q \in ScoreQueries :
             args = [op |-> "score", a |-> a, b |-> b, query |-> q]
       \/ \E o \in DiffTexts, s \in DiffTexts, n \in DiffContexts :
             args = [op |-> "diff", original |-> o, suggested |-> s,
                     context_lines |-> n]

\* sections = self._parse_markdown_sections(content, file_path)
CallParse ==
    /\ args.op = "parse"
    /\ ret = NotCalled
    /\ ret' = [done |-> TRUE,
               sections |-> _parse_markdown_sections(args.content, args.file_path),
               redis_sections |->
                   Redis_parse_markdown_sections(args.content, args.file_path)]
    /\ UNCHANGED <<args, procVars>>

\* two calls of self._generate_section_id
CallSectionId ==
    /\ args.op = "section_id"
    /\ ret = NotCalled
    /\ ret' = [done |-> TRUE,
               a |-> _generate_section_id(args.a[1], args.a[2], args.a[3]),
               b |-> _generate_section_id(args.b[1], args.b[2], args.b[3])]
    /\ UNCHANGED <<args, procVars>>

\* the scores _keyword_search_sections gives two sections for one query
CallScore ==
    /\ args.op = "score"
    /\ ret = NotCalled
    /\ ret' = [done |-> TRUE,
               a |-> KeywordScore(args.a, args.query),
               b |-> KeywordScore(args.b, args.query)]
    /\ UNCHANGED <<args, procVars>>

\* the record of a call of generate_diff_hunks that gave got
DiffReturned(got) ==
    [ done |-> TRUE, raised |-> got.raised, hunks |-> got.hunks, counted |-> FALSE,
      stats |-> [additions |-> 0, deletions |-> 0, changes |-> 0] ]

\* hunks = DiffService.generate_diff_hunks(original, suggested, context_lines)
CallDiff ==
    /\ args.op = "diff"
    /\ ret = NotCalled
    /\ ret' = DiffReturned(generate_diff_hunks(args.original, args.suggested,
                                               args.context_lines))
    /\ UNCHANGED <<args, procVars>>

\* stats = DiffService.get_diff_stats(hunks), for the hunks of a diff
CallStats ==
    /\ args.op = "diff"
    /\ ret.done
    /\ ~ret.raised
    /\ ~ret.counted
    /\ ret' = [ret EXCEPT !.counted = TRUE, !.stats = get_diff_stats(ret.hunks)]
    /\ UNCHANGED <<args, procVars>>

NextPure == CallParse \/ CallSectionId \/ CallScore \/ CallDiff \/ CallStats

SpecPure == InitPure /\ [][NextPure]_vars


(***************************************************************************)
(* Spec: the DocumentProcessor as a state machine.                         *)
(***************************************************************************)
\* the vectors the embedding provider answers with
Vecs == { <<1, 0>>, <<1, 10>> }
QVecs == { <<1, 0>>, <<1, 1>>, <<0, 0>> }
NoResponse == [ok |-> FALSE, vec |-> << >>]      \* an error or a timeout
ProviderResponses == { NoResponse } \cup { [ok |-> TRUE, vec |-> v] : v \in QVecs }

\* what data/embeddings.pkl holds when the processor is constructed: nothing, a
\* vector of a section of an earlier run that no current file has, or such a
\* vector of another dimension (written with another embedding model)
StaleId == _generate_section_id("Gone", "old", 0)
PickledText == "gone"
Pickles ==
    { << >>,
      << [id |-> StaleId, vec |-> <<1, 10>>] >>,
      << [id |-> StaleId, vec |-> <<1>>] >> }

\* the batch sizes generate_section_embeddings is called with: its default, and
\* a small one that splits the few sections of the model into several batches
DefaultBatchSize == 50
SmallBatchSize == 1
BatchSizes == { SmallBatchSize, DefaultBatchSize }

\* no call yet.  call records the last call: path is "none" unless it was a
\* search
NoCall == [path |-> "none", op |-> "none"]

\* __init__: empty stores, load_embeddings() from the pickle file
Init ==
    /\ args = [op |-> "none"]
    /\ ret = NotCalled
    /\ documents = << >>
    /\ sections = << >>
    /\ embeddings \in Pickles
    /\ embeddings_model \in BOOLEAN
    /\ embedding_matrix = << >>
    /\ section_ids_list = << >>
    /\ query_embedding_cache = << >>
    /\ embedding_matrix_dirty = TRUE
    /\ call = NoCall
    /\ embedded_from = [i \in 1..Len(embeddings) |->
                           [id |-> embeddings[i].id, text |-> PickledText]]
    /\ suggestions_store = << >>
    /\ RedisIdle

\* self._store_document(document)
RECURSIVE StoreSections(_, _)
StoreSections(store, secs) ==
    IF secs = << >> THEN store
    ELSE StoreSections(DictPut(store, Head(secs)), Tail(secs))

\* load_documents_from_json_file(path) for a readable file with markdown:
\* _process_json_document and _store_document
LoadJsonFile(f) ==
    LET secs     == _parse_markdown_sections(f.markdown, f.path)
        document == [ id |-> _generate_doc_id(f.path), name |-> f.title,
                      file_path |-> f.path, content |-> f.markdown,
                      sections |-> secs ]
    IN  /\ documents' = DictPut(documents, document)
        /\ sections' = StoreSections(sections, secs)
        /\ call' = [ path |-> "none", op |-> "load", file |-> f.path,
                     reload |-> /\ DictHas(documents, document.id)
                                /\ DictGet(documents, document.id).content = f.markdown ]
        /\ UNCHANGED <<args, ret, embeddings, embeddings_model, embedding_matrix,
                       section_ids_list, query_embedding_cache,
                       embedding_matrix_dirty, embedded_from, redisVars, suggestions_store>>

\* the to_embed list of generate_section_embeddings: the ids of the sections
\* with a non-empty body and no vector, in the order of the store
RECURSIVE ToEmbed_every_section(_, _)
ToEmbed_every_section(secs, embs) ==
    IF secs = << >> THEN << >>
    ELSE (IF Strip(Head(secs).content) # ""
          THEN <<Head(secs).id>> ELSE << >>)
         \o ToEmbed_every_section(Tail(secs), embs)

RECURSIVE ToEmbed(_, _)
ToEmbed(secs, embs) ==
    IF secs = << >> THEN << >>
    ELSE (IF ~DictHas(embs, Head(secs).id) /\ Strip(Head(secs).content) # ""
          THEN <<Head(secs).id>> ELSE << >>)
         \o ToEmbed(Tail(secs), embs)

\* self.embeddings after the vectors vs[1..n] were stored for to_embed[1..n]
RECURSIVE StoreVectors(_, _, _, _)
StoreVectors(embs, to_embed, vs, n) ==
    IF n = 0 THEN embs
    ELSE DictPut(StoreVectors(embs, to_embed, vs, n - 1),
                 [id |-> to_embed[n], vec |-> vs[n]])

\* the texts the vectors of to_embed[1..n] are made of: the bodies of the
\* sections (str(section.content)[:2000]; the bodies of the model are shorter)
RECURSIVE StoreTexts(_, _, _, _)
StoreTexts(from, to_embed, secs, n) ==
    IF n = 0 THEN from
    ELSE DictPut(StoreTexts(from, to_embed, secs, n - 1),
                 [id |-> to_embed[n], text |-> DictGet(secs, to_embed[n]).content])

\* generate_section_embeddings(batch_size).  The provider answers the first
\* ok_batches requests with one vector per text and fails the next one, if
\* there is one: the method then returns without setting the dirty flag.
\* call records the batches of to_embed, the requests sent, the ids of the
\* sections in them, the ids that had vectors before and whether there were any.
GenerateSectionEmbeddings(batch_size) ==
    \E to_embed \in { ToEmbed(sections, embeddings) } :
      LET n == Len(to_embed)
          batches == (n + batch_size - 1) \div batch_size
      IN  IF ~embeddings_model \/ n = 0
          THEN UNCHANGED vars
          ELSE \E ok_batches \in 0..batches :
               \E stored \in { Min(ok_batches * batch_size, n) } :
               \E vs \in [1..stored -> Vecs] :
                 /\ embeddings' = StoreVectors(embeddings, to_embed, vs, stored)
                 /\ embedded_from' = StoreTexts(embedded_from, to_embed, sections, stored)
                 /\ embedding_matrix_dirty' =
                        IF ok_batches = batches THEN TRUE ELSE embedding_matrix_dirty
                 /\ call' = [ path |-> "none", op |-> "generate",
                              batches |-> batches, ok_batches |-> ok_batches,
                              sent |-> Min(ok_batches + 1, batches),
                              sent_ids |-> SubSeq(to_embed, 1,
                                  Min(Min(ok_batches + 1, batches) * batch_size, n)),
                              cached_before |-> DictKeys(embeddings),
                              had_vectors |-> embeddings # << >> ]
                 /\ UNCHANGED <<args, ret, documents, sections, embeddings_model,
                                embedding_matrix, section_ids_list,
                                query_embedding_cache, redisVars, suggestions_store>>

\* whether search_sections(query, ...) reaches the provider's embeddings.create
ProviderAsked(query) ==
    /\ embeddings # << >>
    /\ ~DictHas(query_embedding_cache, Md5Hex(query))
    /\ embeddings_model

\* search_sections(query, limit); resp is the provider's answer if it is asked.
\* call records the search until the stores change: the ids of the sections of
\* sem (the semantic results), kw (the keyword results) and result.
SearchSections(query, limit, resp) ==
    \E c \in { search_sections(sections, embeddings, query_embedding_cache,
                               embeddings_model,
                               [ids |-> section_ids_list, matrix |-> embedding_matrix,
                                dirty |-> embedding_matrix_dirty, raised |-> FALSE],
                               query, limit, resp) } :
        /\ query_embedding_cache' = c.cache
        /\ section_ids_list' = c.m.ids
        /\ embedding_matrix' = c.m.matrix
        /\ embedding_matrix_dirty' = c.m.dirty
        /\ call' = [ path |-> c.path, op |-> "search", query |-> c.query, limit |-> c.limit,
                     raised |-> c.raised, asked |-> c.asked, emb |-> c.emb,
                     sem |-> IdsOf(c.sem), kw_called |-> c.kw_called,
                     kw_limit |-> c.kw_limit, kw |-> IdsOf(c.kw),
                     result |-> IdsOf(c.result) ]
        /\ UNCHANGED <<args, ret, documents, sections, embeddings, embeddings_model,
                       embedded_from, redisVars, suggestions_store>>

\* a search request: the provider's answer matters only if the provider is asked
Search ==
    \E q \in Queries, l \in 0..MaxLimit :
       \E r \in (IF ProviderAsked(q) THEN ProviderResponses ELSE { NoResponse }) :
          SearchSections(q, l, r)

Next ==
    \/ \E f \in Files : LoadJsonFile(f)
    \/ \E b \in BatchSizes : GenerateSectionEmbeddings(b)
    \/ Search

Spec == Init /\ [][Next]_vars

(***************************************************************************)
(* The claims about the sectionizer, the section id and the keyword score, *)
(* checked under SpecPure.                                                 *)
(***************************************************************************)
\* a header line as the specification's section 4.1 defines it: the leading
\* non-whitespace is one or more '#', followed by whitespace and a title
IsHeaderLine(line) ==
    LET s == LStrip(line)
        h == HashRun(s, 1)
    IN  /\ h >= 1
        /\ h < Len(s)
        /\ IsSpace(Char(s, h + 1))
        /\ Strip(SubSeq(s, h + 1, Len(s))) # ""

ParseReturned == args.op = "parse" /\ ret.done

HeaderCount == Cardinality({ k \in 1..Len(args.lines) : IsHeaderLine(args.lines[k]) })

\* the sections whose range [line_start, line_end] holds line index i
LineCover(secs, i) ==
    { k \in 1..Len(secs) : secs[k].line_start <= i /\ i <= secs[k].line_end }

\* C1: for a document with at least one header, every line index
\* 0..len(lines)-1 lies in the range of exactly one of the sections the
\* sectionizer returns (no gaps, lines before the first header included, and
\* no overlaps).
C1_LineRangesPartition ==
    (ParseReturned /\ HeaderCount >= 1)
    => \A i \in 0..(Len(args.lines) - 1) :
           Cardinality(LineCover(ret.sections, i)) = 1

\* C10: for a document with zero header lines the sectionizer returns exactly
\* one section, titled "Main Content", with the line range 0 .. len(lines)-1.
C10_DefaultSection ==
    (ParseReturned /\ HeaderCount = 0)
    => /\ Len(ret.sections) = 1
       /\ ret.sections[1].title = "Main Content"
       /\ ret.sections[1].line_start = 0
       /\ ret.sections[1].line_end = Len(args.lines) - 1

\* the number of the three inputs in which two calls differ
DiffCount(a, b) == Cardinality({ k \in 1..3 : a[k] # b[k] })

\* C9: the section id is a function of (file_path, title, line_start): equal
\* inputs give equal ids, and two calls that differ in exactly one of the
\* three inputs give different ids.
C9_SectionIdFunction ==
    (args.op = "section_id" /\ ret.done)
    => /\ (args.a = args.b => ret.a = ret.b)
       /\ (DiffCount(args.a, args.b) = 1 => ret.a # ret.b)

\* two calls that differ in the start line only, the title holding a ':'
C9_Witness ==
    /\ args.op = "section_id" /\ ret.done
    /\ args.a = <<"A:0", "p", 0>> /\ args.b = <<"A:0", "p", 1>>
    /\ ret.a # ret.b

TitleHasQuery(section, query) == Contains(Lower(section.title), Lower(query))
BodyHasQuery(section, query) == Contains(Lower(section.content), Lower(query))

\* section a has the literal query in its title, section b has it in its
\* body only
TitleAgainstBody ==
    /\ args.op = "score" /\ ret.done
    /\ TitleHasQuery(args.a, args.query)
    /\ ~TitleHasQuery(args.b, args.query)
    /\ BodyHasQuery(args.b, args.query)

\* C7 as stated: for every query and pair of sections, a section with the
\* literal query in its title scores strictly more than a section with the
\* query in its body only.
C7_TitleBeatsBody == TitleAgainstBody => ret.a > ret.b

DomainBonus(section) == BonusScore(agents_terms, Lower(section.content))

TitleHasToken(section, query) ==
    \E k \in 1..Len(SplitWs(Lower(query))) :
        Contains(Lower(section.title), SplitWs(Lower(query))[k])

\* C7 as amended: a section with the literal query in its title scores strictly
\* more than a section with the query in its body only, if both earn the same
\* domain-term bonus and the title of the second holds none of the query's
\* tokens.
C7_TitleBeatsBodySameBonus ==
    (/\ TitleAgainstBody
     /\ DomainBonus(args.a) = DomainBonus(args.b)
     /\ ~TitleHasToken(args.b, args.query))
    => ret.a > ret.b

\* "Api" in the title scores 30, "api" in the body alone 6
C7_Witness ==
    /\ TitleAgainstBody
    /\ args.a = [title |-> "Api", content |-> ""]
    /\ args.b = [title |-> "Misc", content |-> "api"]
    /\ args.query = "Api"
    /\ ret.a = 30 /\ ret.b = 6


(***************************************************************************)
(* SpecLoad: loads and indexing runs of a processor whose files change     *)
(* between loads; the provider answers every request of a run.             *)
(***************************************************************************)

\* the files of Spec, and file p again with the body of its section Misc
\* changed and with its first header line removed
FileVersions ==
    Files \cup
    { [path |-> "p", markdown |-> "# Tool\n# Misc\nrunner", title |-> "P"],
      [path |-> "p", markdown |-> "# Misc\ntool", title |-> "P"] }

\* generate_section_embeddings(batch_size) without a failing batch
GenerateAnswered(batch_size) ==
    /\ GenerateSectionEmbeddings(batch_size)
    /\ call'.op = "generate" => call'.ok_batches = call'.batches

NextLoad ==
    \/ \E f \in FileVersions : LoadJsonFile(f)
    \/ \E b \in BatchSizes : GenerateAnswered(b)

SpecLoad == Init /\ [][NextLoad]_vars

(***************************************************************************)
(* SpecDir: single loads, of files that load and of files that do not, and *)
(* directory loads.                                                        *)
(***************************************************************************)

\* files that do not load: a path without a file, a file json.load fails on, a
\* JSON text that is no object, and a JSON object without (or with an empty)
\* 'markdown'
BadKinds == { "missing", "unreadable", "not_object", "no_markdown" }
BadFiles == { [path |-> "r", kind |-> k] : k \in BadKinds }
FileKind(f) == IF "kind" \in DOMAIN f THEN f.kind ELSE "document"

\* a variant that stores an empty document for a file without markdown
load_documents_from_json_file_stores_empty(f, docs, secs) ==
    IF FileKind(f) \in { "missing", "unreadable" }
    THEN [raised |-> "DocumentProcessingError", documents |-> docs, sections |-> secs]
    ELSE IF FileKind(f) = "not_object"
    THEN [raised |-> "AttributeError", documents |-> docs, sections |-> secs]
    ELSE IF FileKind(f) = "no_markdown"
    THEN [raised |-> "none",
          documents |-> DictPut(docs, [ id |-> _generate_doc_id(f.path), name |-> "",
                                        file_path |-> f.path, content |-> "",
                                        sections |-> << >> ]),
          sections |-> secs]
    ELSE [raised |-> "none",
          documents |->
              DictPut(docs, [ id |-> _generate_doc_id(f.path), name |-> f.title,
                              file_path |-> f.path, content |-> f.markdown,
                              sections |-> _parse_markdown_sections(f.markdown, f.path) ]),
          sections |-> StoreSections(secs, _parse_markdown_sections(f.markdown, f.path))]

\* load_documents_from_json_file(path) on the stores docs and secs: the
\* exception it raises ("none": it returns the document) and the stores after
load_documents_from_json_file(f, docs, secs) ==
    IF FileKind(f) \in { "missing", "unreadable", "no_markdown" }
    THEN [raised |-> "DocumentProcessingError", documents |-> docs, sections |-> secs]
    ELSE IF FileKind(f) = "not_object"
    THEN [raised |-> "AttributeError", documents |-> docs, sections |-> secs]
    ELSE [raised |-> "none",
          documents |->
              DictPut(docs, [ id |-> _generate_doc_id(f.path), name |-> f.title,
                              file_path |-> f.path, content |-> f.markdown,
                              sections |-> _parse_markdown_sections(f.markdown, f.path) ]),
          sections |-> StoreSections(secs, _parse_markdown_sections(f.markdown, f.path))]

\* the loop of load_documents_from_directory over the files found:
\* _load_single_document swallows every exception and the file is skipped.
\* st holds the stores and the paths of the documents loaded
RECURSIVE LoadEach(_, _)
LoadEachNext(files, st, got) ==
    LoadEach(Tail(files),
             [ documents |-> got.documents, sections |-> got.sections,
               loaded |-> IF got.raised = "none"
                          THEN Append(st.loaded, Head(files).path) ELSE st.loaded ])
LoadEach(files, st) ==
    IF files = << >> THEN st
    ELSE LoadEachNext(files, st,
                      load_documents_from_json_file(Head(files), st.documents,
                                                    st.sections))

\* the directories: the JSON files rglob finds, in its order
Directories ==
    { dir \in SeqsUpTo(Files \cup (BadFiles \ { [path |-> "r", kind |-> "missing"] }),
                       MaxDirFiles) :
        \A i, j \in 1..Len(dir) : dir[i].path = dir[j].path => i = j }

\* load_documents_from_json_file(path) of a file that does not load
LoadJsonFileFails(f) ==
    \E got \in { load_documents_from_json_file(f, documents, sections) } :
        /\ documents' = got.documents
        /\ sections' = got.sections
        /\ call' = [ path |-> "none", op |-> "load_failed", file |-> f.path,
                     kind |-> FileKind(f), raised |-> got.raised ]
        /\ UNCHANGED <<args, ret, embeddings, embeddings_model, embedding_matrix,
                       section_ids_list, query_embedding_cache,
                       embedding_matrix_dirty, embedded_from, redisVars, suggestions_store>>

\* load_documents_from_directory(docs_path) of an existing directory: the files
\* are loaded one by one; if a document was loaded and a section with a body has
\* no vector, generate_section_embeddings() with its default batch size (the
\* provider answers the first ok_batches requests) and save_embeddings()
LoadDirectory(dir) ==
    \E st \in { LoadEach(dir, [ documents |-> documents, sections |-> sections,
                                loaded |-> << >> ]) } :
    \E to_embed \in { IF st.loaded = << >> \/ ~embeddings_model THEN << >>
                      ELSE ToEmbed(st.sections, embeddings) } :
      LET n == Len(to_embed)
          batches == (n + DefaultBatchSize - 1) \div DefaultBatchSize
      IN  \E ok_batches \in 0..batches :
          \E stored \in { Min(ok_batches * DefaultBatchSize, n) } :
          \E vs \in [1..stored -> Vecs] :
             /\ documents' = st.documents
             /\ sections' = st.sections
             /\ embeddings' = StoreVectors(embeddings, to_embed, vs, stored)
             /\ embedded_from' = StoreTexts(embedded_from, to_embed, st.sections, stored)
             /\ embedding_matrix_dirty' =
                    IF n > 0 /\ ok_batches = batches THEN TRUE
                                                     ELSE embedding_matrix_dirty
             /\ call' = [ path |-> "none", op |-> "load_directory", files |-> dir,
                          loaded |-> st.loaded ]
             /\ UNCHANGED <<args, ret, embeddings_model, embedding_matrix,
                            section_ids_list, query_embedding_cache, redisVars, suggestions_store>>

NextDir ==
    \/ \E f \in Files : LoadJsonFile(f)
    \/ \E f \in BadFiles : LoadJsonFileFails(f)
    \/ \E dir \in Directories : LoadDirectory(dir)

SpecDir == Init /\ [][NextDir]_vars

(***************************************************************************)
(* SpecCache: searches of a processor that has vectors (those of the       *)
(* pickle file) and an embedding model, with enough distinct queries to    *)
(* fill the query-embedding cache.  A search asks for a query never used   *)
(* before, for the oldest or the newest query of the cache, or for the     *)
(* first query again.                                                      *)
(***************************************************************************)

\* the k-th query text
QueryText(k) == "q" \o ToString(k)

\* the queries a search of SpecCache is called with
CacheQueries(cache) ==
    LET used  == { k \in 1..MaxQueries : DictHas(cache, Md5Hex(QueryText(k))) }
        fresh == { k \in 1..MaxQueries : \A u \in used : k > u }
    IN  { QueryText(k) : k \in { f \in fresh : \A g \in fresh : f <= g } \cup {1} }
        \cup (IF cache = << >> THEN {}
              ELSE { QueryText(k) : k \in { u \in used :
                        Md5Hex(QueryText(u)) \in { cache[1].id, cache[Len(cache)].id } } })

\* the provider's answers in SpecCache
CacheResponses == { NoResponse, [ok |-> TRUE, vec |-> <<1, 0>>] }

InitCache ==
    /\ Init
    /\ embeddings # << >>
    /\ embeddings_model

CacheSearch ==
    \E q \in CacheQueries(query_embedding_cache), r \in CacheResponses :
       SearchSections(q, MaxLimit, r)

NextCache == CacheSearch

SpecCache == InitCache /\ [][NextCache]_vars

(***************************************************************************)
(* SpecRedis: RedisEmbeddingService on a Redis server.  One client calls   *)
(* batch_store_embeddings once, another calls get_all_embeddings again and *)
(* again; the server executes one command, or one MULTI/EXEC pipeline, at  *)
(* a time.  Inside one event loop the two coroutines cannot interleave     *)
(* (neither awaits), so the reader stands for a client in another process. *)
(***************************************************************************)

\* self.batch_size
RedisBatchSize == 100
RedisBatchSizes == { SmallBatchSize, RedisBatchSize }

\* the vectors given to the service.  Their components are exactly
\* representable in float32, so astype(np.float32) and the tobytes/frombuffer
\* pair leave them as they are
RedisVecs == { <<1, 0>>, <<3, 4>>, <<0, 0>> }

\* embedding.astype(np.float32), divided by its norm when the norm is positive:
\* the vector num / sqrt(densq)
Normalized(v) == [num |-> v, densq |-> IF NormSq(v) > 0 THEN NormSq(v) ELSE 1]

\* the mappings section_id -> embedding given to batch_store_embeddings, in the
\* order of their keys
Mappings ==
    { M \in SeqsUpTo([id : RedisIds, vec : RedisVecs], MaxMapping) :
        \A i, j \in 1..Len(M) : M[i].id = M[j].id => i = j }

\* batch_ids = section_ids[i:i + self.batch_size], with their vectors
BatchAt(M, i, batch_size) == SubSeq(M, i + 1, Min(i + batch_size, Len(M)))

\* pipe.execute() of one batch: SET embedding:<id> and SADD sections:index for
\* each id of the batch, in one MULTI/EXEC transaction
ExecuteBatch(keys, batch) ==
    KeysOf(keys.index \cup Range(DictKeys(batch)),
           [id \in RedisIds |-> IF DictHas(batch, id)
                                THEN Normalized(DictGet(batch, id).vec)
                                ELSE keys.embedding[id]])

\* the keys with the strings of the ids in bad cut short
Damaged(keys, bad) ==
    KeysOf(keys.index,
           [id \in RedisIds |-> IF id \in bad \cap keys.index THEN Truncated
                                                                ELSE keys.embedding[id]])

\* a server that holds what earlier calls stored, some of it damaged since, no
\* call in progress
InitRedis ==
    /\ args = [op |-> "none"]
    /\ ret = NotCalled
    /\ documents = << >>
    /\ sections = << >>
    /\ embeddings = << >>
    /\ embeddings_model = FALSE
    /\ embedding_matrix = << >>
    /\ section_ids_list = << >>
    /\ query_embedding_cache = << >>
    /\ embedding_matrix_dirty = TRUE
    /\ call = NoCall
    /\ embedded_from = << >>
    /\ suggestions_store = << >>
    /\ \E M \in Mappings, bad \in SUBSET RedisIds :
          redis_keys = Damaged(ExecuteBatch(NoKeys, M), bad)
    /\ redis_calls = [writer |-> [pc |-> "idle"], reader |-> [pc |-> "idle"]]

\* batch_store_embeddings(embeddings) up to its loop: stored_count = 0,
\* section_ids = list(embeddings.keys())
BatchStoreCall ==
    /\ redis_calls.writer.pc = "idle"
    /\ \E M \in Mappings, batch_size \in RedisBatchSizes :
          redis_calls' = [redis_calls EXCEPT !.writer =
              [ pc |-> IF M = << >> THEN "done" ELSE "loop",
                embeddings |-> M, batch_size |-> batch_size, i |-> 0,
                stored_count |-> 0, index_before |-> redis_keys.index ]]
    /\ UNCHANGED <<redis_keys, args, ret, documents, sections, embeddings,
                   embeddings_model, embedding_matrix, section_ids_list,
                   query_embedding_cache, embedding_matrix_dirty, call,
                       embedded_from, suggestions_store>>

\* one turn of the loop of batch_store_embeddings: the pipeline of the batch is
\* executed and counted, or it raises and the loop continues with the next
BatchStoreExecute ==
    LET w     == redis_calls.writer
        batch == BatchAt(w.embeddings, w.i, w.batch_size)
        next  == w.i + w.batch_size
    IN  /\ w.pc = "loop"
        /\ \E ok \in BOOLEAN :
              /\ redis_keys' = IF ok THEN ExecuteBatch(redis_keys, batch)
                                     ELSE redis_keys
              /\ redis_calls' = [redis_calls EXCEPT !.writer =
                    [w EXCEPT !.pc = IF next < Len(w.embeddings) THEN "loop"
                                                                 ELSE "done",
                              !.i = next,
                              !.stored_count = IF ok THEN @ + Len(batch) ELSE @]]
        /\ UNCHANGED <<args, ret, documents, sections, embeddings,
                       embeddings_model, embedding_matrix, section_ids_list,
                       query_embedding_cache, embedding_matrix_dirty, call,
                       embedded_from, suggestions_store>>

\* the reply of get_all_embeddings: a dict with the ids that have data
Retrieved(section_ids, embedding) ==
    [id \in RedisIds |-> IF id \in section_ids THEN embedding[id] ELSE Nil]

\* get_all_embeddings up to SMEMBERS sections:index; without ids, or when the
\* command raises, it returns {}.  writer is the position of the writing client
\* at this moment
GetAllSmembers ==
    /\ redis_calls.reader.pc \in {"idle", "done"}
    /\ \E ok \in BOOLEAN :
          redis_calls' = [redis_calls EXCEPT !.reader =
              [ pc |-> IF ok /\ redis_keys.index # {} THEN "pipeline" ELSE "done",
                section_ids |-> redis_keys.index, raised |-> ~ok,
                replied |-> ok,
                writer |-> redis_calls.writer.pc,
                result |-> Retrieved({}, redis_keys.embedding) ]]
    /\ UNCHANGED <<redis_keys, args, ret, documents, sections, embeddings,
                   embeddings_model, embedding_matrix, section_ids_list,
                   query_embedding_cache, embedding_matrix_dirty, call,
                       embedded_from, suggestions_store>>

\* get_all_embeddings from the pipeline of GETs to its return.  replied: the
\* server answered the pipeline; loaded: every reply was deserialized.  An
\* exception of either kind ends the call with {}
GetAllExecute ==
    LET r      == redis_calls.reader
        loaded == \A id \in r.section_ids : redis_keys.embedding[id] # Truncated
    IN  /\ r.pc = "pipeline"
        /\ \E ok \in BOOLEAN :
              redis_calls' = [redis_calls EXCEPT !.reader =
                  [r EXCEPT !.pc = "done", !.raised = ~(ok /\ loaded),
                            !.replied = ok,
                            !.result = Retrieved(IF ok /\ loaded THEN r.section_ids
                                                                 ELSE {},
                                                 redis_keys.embedding)]]
        /\ UNCHANGED <<redis_keys, args, ret, documents, sections, embeddings,
                       embeddings_model, embedding_matrix, section_ids_list,
                       query_embedding_cache, embedding_matrix_dirty, call,
                       embedded_from, suggestions_store>>

NextRedis == BatchStoreCall \/ BatchStoreExecute \/ GetAllSmembers \/ GetAllExecute

SpecRedis == InitRedis /\ [][NextRedis]_vars

(***************************************************************************)
(* SpecSuggestions: the suggestions router on its in-memory store.  The     *)
(* store starts empty; generate_suggestions stores what the AI service      *)
(* returns, under fresh uuid4 ids and with the status PENDING; the other    *)
(* handlers look an id up and answer 404 when it is not stored.  `call`     *)
(* records the last request and the status code of its response.            *)
(***************************************************************************)
SuggestionIds == { "u1", "u2" }     \* the ids of the requests and of uuid4
SuggestionStatus == { "pending", "approved", "rejected", "merged" }
Reviewers == { "None", "rev" }            \* reviewed_by of a request, "None" for None
StatusChoices == SuggestionStatus \cup { "None" }
Clock == 0..MaxClock                      \* the values datetime.now() takes

\* del d[k]
DictDel(d, k) == SelectSeq(d, LAMBDA r : r.id # k)

\* the UpdateSuggestion the AI service builds: status PENDING, not reviewed
UpdateSuggestion(id, now) ==
    [id |-> id, status |-> "pending", created_at |-> now, updated_at |-> now,
     reviewed_by |-> "None", reviewed_at |-> "None"]

\* for suggestion in suggestions: suggestions_store[suggestion.id] = suggestion
RECURSIVE StoreSuggestions(_, _, _)
StoreSuggestions(store, ids, now) ==
    IF ids = << >> THEN store
    ELSE StoreSuggestions(DictPut(store, UpdateSuggestion(Head(ids), now)),
                          Tail(ids), now)

\* the lists of at most MaxSuggestions fresh ids the AI service may return
FreshIdLists(store) ==
    { ids \in SeqsUpTo(SuggestionIds, MaxSuggestions) :
        /\ \A i \in 1..Len(ids) : ~DictHas(store, ids[i])
        /\ \A i, j \in 1..Len(ids) : i # j => ids[i] # ids[j] }

\* a variant of approve_suggestion that leaves a merged suggestion as it is
approve_suggestion_stored_unless_merged(store, id, now) ==
    IF DictGet(store, id).status = "merged"
      THEN store
      ELSE DictPut(store, [DictGet(store, id) EXCEPT !.status = "approved",
                                                     !.updated_at = now])

\* the body of approve_suggestion on a stored suggestion
approve_suggestion_stored(store, id, now) ==
    DictPut(store, [DictGet(store, id) EXCEPT !.status = "approved",
                                              !.updated_at = now])

\* the body of reject_suggestion on a stored suggestion
reject_suggestion_stored(store, id, now) ==
    DictPut(store, [DictGet(store, id) EXCEPT !.status = "rejected",
                                              !.updated_at = now])

\* the body of update_suggestion on a stored suggestion
update_suggestion_stored(store, id, status, reviewed_by, now) ==
    LET s  == DictGet(store, id)
        s1 == IF status # "None" THEN [s EXCEPT !.status = status] ELSE s
        s2 == IF reviewed_by # "None"
                THEN [s1 EXCEPT !.reviewed_by = reviewed_by, !.reviewed_at = now]
                ELSE s1
    IN  DictPut(store, [s2 EXCEPT !.updated_at = now])

\* what every request leaves alone
ApiUnchanged ==
    UNCHANGED <<args, ret, documents, sections, embeddings, embeddings_model,
                embedding_matrix, section_ids_list, query_embedding_cache,
                embedding_matrix_dirty, embedded_from, redisVars>>

Request(op, id, code) == [path |-> "api", op |-> op, suggestion_id |-> id,
                          status_code |-> code]

\* the module is imported: suggestions_store = {}
InitSuggestions == ProcIdle /\ args = [op |-> "none"] /\ ret = NotCalled

\* POST /suggestions/generate
generate_suggestions ==
    \E ids \in FreshIdLists(suggestions_store), now \in Clock :
        /\ suggestions_store' = StoreSuggestions(suggestions_store, ids, now)
        /\ call' = Request("generate", "None", 200)
        /\ ApiUnchanged

\* GET /suggestions/{suggestion_id}
get_suggestion(suggestion_id) ==
    /\ call' = Request("get", suggestion_id,
                       IF DictHas(suggestions_store, suggestion_id) THEN 200 ELSE 404)
    /\ UNCHANGED suggestions_store
    /\ ApiUnchanged

\* PUT /suggestions/{suggestion_id}
update_suggestion(suggestion_id, status, reviewed_by, now) ==
    /\ IF ~DictHas(suggestions_store, suggestion_id)
         THEN /\ call' = Request("update", suggestion_id, 404)
              /\ UNCHANGED suggestions_store
         ELSE /\ suggestions_store' =
                    update_suggestion_stored(suggestions_store, suggestion_id,
                                             status, reviewed_by, now)
              /\ call' = Request("update", suggestion_id, 200)
    /\ ApiUnchanged

\* DELETE /suggestions/{suggestion_id}
delete_suggestion(suggestion_id) ==
    /\ IF ~DictHas(suggestions_store, suggestion_id)
         THEN /\ call' = Request("delete", suggestion_id, 404)
              /\ UNCHANGED suggestions_store
         ELSE /\ suggestions_store' = DictDel(suggestions_store, suggestion_id)
              /\ call' = Request("delete", suggestion_id, 200)
    /\ ApiUnchanged

\* POST /suggestions/{suggestion_id}/approve
approve_suggestion(suggestion_id, now) ==
    /\ IF ~DictHas(suggestions_store, suggestion_id)
         THEN /\ call' = Request("approve", suggestion_id, 404)
              /\ UNCHANGED suggestions_store
         ELSE /\ suggestions_store' =
                    approve_suggestion_stored(suggestions_store, suggestion_id, now)
              /\ call' = Request("approve", suggestion_id, 200)
    /\ ApiUnchanged

\* POST /suggestions/{suggestion_id}/reject
reject_suggestion(suggestion_id, now) ==
    /\ IF ~DictHas(suggestions_store, suggestion_id)
         THEN /\ call' = Request("reject", suggestion_id, 404)
              /\ UNCHANGED suggestions_store
         ELSE /\ suggestions_store' =
                    reject_suggestion_stored(suggestions_store, suggestion_id, now)
              /\ call' = Request("reject", suggestion_id, 200)
    /\ ApiUnchanged

\* GET /suggestions/{suggestion_id}/diff
get_suggestion_diff(suggestion_id) ==
    /\ call' = Request("diff", suggestion_id,
                       IF DictHas(suggestions_store, suggestion_id) THEN 200 ELSE 404)
    /\ UNCHANGED suggestions_store
    /\ ApiUnchanged

NextSuggestions ==
    \/ generate_suggestions
    \/ \E id \in SuggestionIds : get_suggestion(id)
    \/ \E id \in SuggestionIds, status \in StatusChoices, by \in Reviewers,
          now \in Clock : update_suggestion(id, status, by, now)
    \/ \E id \in SuggestionIds : delete_suggestion(id)
    \/ \E id \in SuggestionIds, now \in Clock : approve_suggestion(id, now)
    \/ \E id \in SuggestionIds, now \in Clock : reject_suggestion(id, now)
    \/ \E id \in SuggestionIds : get_suggestion_diff(id)

SpecSuggestions == InitSuggestions /\ [][NextSuggestions]_vars


(***************************************************************************)
(* The claims about the diff service, checked under SpecPure.              *)
(***************************************************************************)
\* generate_diff_hunks was called and has returned or raised
DiffCalled == args.op = "diff" /\ ret.done

\* C11 as stated: the diff of a text against itself has no hunk, for every
\* text and every context_lines value.
C11_DiffOfEqualTexts ==
    (DiffCalled /\ args.original = args.suggested)
        => (~ret.raised /\ ret.hunks = << >>)

\* C11 with the context that counts lines: for every text A and every
\* context_lines >= 0, generate_diff_hunks(A, A) returns an empty hunk list.
C11_DiffOfEqualTextsContext ==
    (DiffCalled /\ args.original = args.suggested /\ args.context_lines >= 0)
        => (~ret.raised /\ ret.hunks = << >>)

C11_Witness ==
    /\ DiffCalled
    /\ args.original = "a\nb\na"
    /\ args.suggested = args.original
    /\ args.context_lines = 0
    /\ ~ret.raised
    /\ ret.hunks = << >>

\* the lines of the two texts of the call
OriginalLines == SplitLines(args.original)
SuggestedLines == SplitLines(args.suggested)

\* the texts have the same number of lines and differ in line k only, and
\* every line is within n lines of line k
OneLineChanged(a, b, n) ==
    /\ Len(a) = Len(b)
    /\ \E k \in 1..Len(a) :
          /\ a[k] # b[k]
          /\ \A i \in 1..Len(a) : i # k => a[i] = b[i]
          /\ k - 1 <= n
          /\ Len(a) - k <= n

\* C12: texts of the same number of lines that differ in exactly one line,
\* with every line within context_lines of it, give exactly one hunk, whose
\* old_lines are all lines of the original and whose new_lines are all lines
\* of the proposed text, with old_start = 1 and new_start = 1.
C12_OneChangedLineOneHunk ==
    (DiffCalled /\ OneLineChanged(OriginalLines, SuggestedLines, args.context_lines))
        => /\ ~ret.raised
           /\ Len(ret.hunks) = 1
           /\ ret.hunks[1].old_lines = OriginalLines
           /\ ret.hunks[1].new_lines = SuggestedLines
           /\ ret.hunks[1].old_start = 1
           /\ ret.hunks[1].new_start = 1

C12_Witness ==
    /\ DiffCalled
    /\ args.original = "a\nb\nc"
    /\ args.suggested = "a\nx\nc"
    /\ args.context_lines = 3
    /\ Len(ret.hunks) = 1
    /\ ret.hunks[1].old_lines = <<"a", "b", "c">>
    /\ ret.hunks[1].new_lines = <<"a", "x", "c">>

\* the hunks a call returned
ReturnedHunks ==
    IF DiffCalled /\ ~ret.raised THEN Range(ret.hunks) ELSE {}

UnifiedRange(start, count, len) ==
    IF count = 0 THEN start >= 0 /\ start <= len
    ELSE start >= 1 /\ start + count - 1 <= len

RECURSIVE HunkTokens(_, _)
HunkTokens(diff, acc) ==
    IF diff = << >> THEN acc
    ELSE IF StartsWith(Head(diff), "@@") THEN HunkTokens(Tail(diff), Append(acc, << >>))
    ELSE IF acc = << >> THEN HunkTokens(Tail(diff), acc)
    ELSE HunkTokens(Tail(diff),
                    [acc EXCEPT ![Len(acc)] = Append(@, Head(diff))])

\* the contents of the lines of tokens that carry the mark prefix
Marked(tokens, prefix) ==
    { SubSeq(tokens[i], 2, Len(tokens[i])) :
        i \in { k \in 1..Len(tokens) : StartsWith(tokens[k], prefix) } }

\* the number of lines of tokens marked with prefix whose content is not among
\* the lines marked with other
OnlyCount(tokens, prefix, other) ==
    Cardinality({ i \in 1..Len(tokens) :
                    /\ StartsWith(tokens[i], prefix)
                    /\ SubSeq(tokens[i], 2, Len(tokens[i])) \notin Marked(tokens, other) })

RECURSIVE SumOnly(_, _, _)
SumOnly(hunkTokens, prefix, other) ==
    IF hunkTokens = << >> THEN 0
    ELSE OnlyCount(Head(hunkTokens), prefix, other)
         + SumOnly(Tail(hunkTokens), prefix, other)

\* the lines of the hunks of the call's unified diff
CallTokens ==
    HunkTokens(unified_diff(OriginalLines, SuggestedLines, args.context_lines), << >>)

\* C14: get_diff_stats reports as additions the number of new-only ('+') lines
\* whose content is not among the old-only ('-') lines of the same hunk, summed
\* over the hunks, as deletions the mirror count, and as changes the number of
\* hunks.
C14_StatsCountMarkedLines ==
    (args.op = "diff" /\ ret.done /\ ret.counted)
        => /\ ret.stats.additions = SumOnly(CallTokens, "+", "-")
           /\ ret.stats.deletions = SumOnly(CallTokens, "-", "+")
           /\ ret.stats.changes = Len(ret.hunks)

(***************************************************************************)
(* The claims about search_sections, checked under Spec.  call describes   *)
(* the last search; the stores have not changed since.                     *)
(***************************************************************************)
Searched == call.path \in { "no_embeddings", "no_query_embedding", "except", "semantic" }

\* the place of a stored section in the section store, and its keyword score
\* for the query of the last search
StorePos(id) == CHOOSE i \in 1..Len(sections) : sections[i].id = id
StoredScore(id) == SectionScore(sections[StorePos(id)], call.query)

PositiveIds == { id \in Range(DictKeys(sections)) : StoredScore(id) > 0 }

\* x comes before y in the keyword order: by descending score, equal scores in
\* the order of the section store
KeywordBefore(x, y) ==
    \/ StoredScore(x) > StoredScore(y)
    \/ StoredScore(x) = StoredScore(y) /\ StorePos(x) < StorePos(y)

\* the ids of S in keyword order
RECURSIVE KeywordRanked(_)
KeywordRanked(S) ==
    IF S = { } THEN << >>
    ELSE LET first == CHOOSE x \in S : \A y \in S \ { x } : KeywordBefore(x, y)
         IN  <<first>> \o KeywordRanked(S \ { first })

\* the first n entries of seq, all of them if there are fewer
FirstN(seq, n) == SubSeq(seq, 1, IF n < Len(seq) THEN n ELSE Len(seq))

NoDuplicates(seq) == \A i, j \in 1..Len(seq) : i # j => seq[i] # seq[j]

\* C2: when the semantic ranking returns fewer than limit sections,
\* search_sections returns them, in their order, followed by the sections of
\* positive keyword score whose ids are not among them, in keyword order,
\* until the result holds limit sections or no such section is left.
C2_TopUpFillsResult ==
    (call.path = "semantic" /\ Len(call.sem) < call.limit)
    => call.result =
          FirstN(call.sem \o KeywordRanked(PositiveIds \ Range(call.sem)), call.limit)

\* C3: search_sections returns at most limit sections, no two of them with
\* the same id, and does not raise, whatever the section store, the embedding
\* cache and the matrix are.
C3_SearchBounded ==
    Searched
    => /\ Len(call.result) <= call.limit
       /\ NoDuplicates(call.result)
       /\ ~call.raised

\* a search in which np.dot raised on a cached vector of another dimension and
\* the keyword scorer filled the limit
C3_Witness ==
    /\ call.path = "except"
    /\ call.limit = 2
    /\ Len(call.result) = 2

\* C4: when the query embedding cannot be obtained (the provider fails or
\* none is configured), search_sections does not raise, returns what the
\* keyword scorer returns for the query and the limit, and leaves the query
\* out of the query cache.
C4_EmbeddingFailureFallsBack ==
    call.path = "no_query_embedding"
    => /\ ~call.raised
       /\ call.result = FirstN(KeywordRanked(PositiveIds), call.limit)
       /\ ~DictHas(query_embedding_cache, Md5Hex(call.query))

\* the provider was asked and failed, and the keyword scorer found a section
C4_Witness ==
    /\ call.path = "no_query_embedding"
    /\ call.asked
    /\ embeddings_model
    /\ Len(call.result) >= 1

\* the cosine similarity of row and q is above 1/10
SimilarityAbove(row, q) ==
    /\ Len(row) = Len(q)
    /\ Dot(row, q) > 0
    /\ 100 * Dot(row, q) * Dot(row, q) > NormSq(row) * NormSq(q)

\* the cosine similarity of a is less than the one of b, both above 0
SimilarityLess(a, b, q) ==
    Dot(a, q) * Dot(a, q) * NormSq(b) < Dot(b, q) * Dot(b, q) * NormSq(a)

StoredVector(id) == DictGet(embeddings, id).vec

\* the stored sections that have a vector whose similarity to the query of the
\* last search is above the threshold
AboveIds ==
    { id \in Range(DictKeys(sections)) :
        DictHas(embeddings, id) /\ SimilarityAbove(StoredVector(id), call.emb.vec) }

\* C5: the semantic ranker returns the first min(limit, n) of the n sections
\* whose similarity to the query is above 0.1, by descending similarity: it
\* returns min(limit, n) of them, in descending order, and none that it
\* leaves out is more similar than one it returns.
C5_SemanticRanking ==
    call.path = "semantic"
    => /\ Len(call.sem) = (IF call.limit < Cardinality(AboveIds)
                           THEN call.limit ELSE Cardinality(AboveIds))
       /\ Range(call.sem) \subseteq AboveIds
       /\ \A i, j \in 1..Len(call.sem) :
             i < j => ~SimilarityLess(StoredVector(call.sem[i]),
                                      StoredVector(call.sem[j]), call.emb.vec)
       /\ \A x \in AboveIds \ Range(call.sem) : \A i \in 1..Len(call.sem) :
             ~SimilarityLess(StoredVector(call.sem[i]), StoredVector(x), call.emb.vec)

\* C6: the semantic ranker returns no section whose similarity to the query is
\* 0.1 or less.
C6_AboveThreshold ==
    call.path = "semantic"
    => \A i \in 1..Len(call.sem) :
          SimilarityAbove(StoredVector(call.sem[i]), call.emb.vec)

\* the ranker returned a section and left out a stored one whose vector is not
\* above the threshold
C6_Witness ==
    /\ call.path = "semantic"
    /\ Len(call.sem) >= 1
    /\ Len(call.sem) < call.limit
    /\ \E id \in Range(DictKeys(sections)) :
          /\ DictHas(embeddings, id)
          /\ ~SimilarityAbove(StoredVector(id), call.emb.vec)
          /\ NormSq(call.emb.vec) > 0
          /\ Dot(StoredVector(id), call.emb.vec) > 0

\* C8: the keyword scorer returns the sections of positive score only, by
\* descending score, sections of equal score in the order of the section
\* store, cut to the first limit entries.
C8_KeywordRanking ==
    (Searched /\ call.kw_called)
    => call.kw = FirstN(KeywordRanked(PositiveIds), call.kw_limit)

\* two sections of equal score returned in store order, one of score 0 left out
C8_Witness ==
    /\ Searched /\ call.kw_called
    /\ Len(call.kw) = 2
    /\ StoredScore(call.kw[1]) = StoredScore(call.kw[2])
    /\ StorePos(call.kw[1]) < StorePos(call.kw[2])
    /\ Cardinality(PositiveIds) < Len(sections)

(***************************************************************************)
(* The claims about loading and indexing, checked under Spec.              *)
(***************************************************************************)
\* the step is a load of a file that is stored already with the same content
ReloadStep == call'.op = "load" /\ call'.reload

\* the sections of the stored document of the file at path
StoredSectionsOf(path) == DictGet(documents, _generate_doc_id(path)).sections

\* C17: loading an unchanged document again leaves the document store and the
\* section store as they were (same document id, same section ids with the
\* same titles, bodies and line ranges) and keeps every cached vector.
C17_ReloadIdempotent ==
    [][ReloadStep =>
           /\ DictKeys(documents') = DictKeys(documents)
           /\ sections' = sections
           /\ embeddings' = embeddings]_vars

C17_Witness ==
    /\ call.op = "load"
    /\ call.reload
    /\ \E i \in 1..Len(StoredSectionsOf(call.file)) :
          DictHas(embeddings, StoredSectionsOf(call.file)[i].id)

\* C18: whenever the dirty flag is clear and a matrix exists, the id list of
\* the matrix holds exactly the ids of the embedding cache.
C18_CleanMatrixIsCurrent ==
    (~embedding_matrix_dirty /\ embedding_matrix # << >>)
        => Range(section_ids_list) = Range(DictKeys(embeddings))

\* C19: a batch whose request fails does not end the indexing run: every batch
\* of the run is sent to the provider.
C19_FailedBatchDoesNotAbort ==
    call.op = "generate" => call.sent = call.batches

\* the step is an indexing run in which a request failed
FailedRunStep ==
    call'.op = "generate" /\ call'.ok_batches < call'.batches

WrittenIds == Range(DictKeys(redis_calls.writer.embeddings))
ReturnedIds == { id \in WrittenIds : redis_calls.reader.result[id] # Nil }

\* C15: a get_all_embeddings that starts while batch_store_embeddings is
\* storing a mapping M, none of whose ids was in the index before, returns
\* either none of M's ids or all of them
C15_ReaderSeesWholeMapping ==
    ( /\ redis_calls.reader.pc = "done"
      /\ redis_calls.reader.writer = "loop"
      /\ WrittenIds \cap redis_calls.writer.index_before = {} )
    => ReturnedIds \in { {}, WrittenIds }

\* C16: when batch_store_embeddings has stored all N vectors of a mapping on
\* an empty server, a get_all_embeddings that starts afterwards and does not
\* raise returns exactly the ids of the mapping, each with the vector that
\* was given
C16_RedisRoundTrip ==
    ( /\ redis_calls.reader.pc = "done"
      /\ ~redis_calls.reader.raised
      /\ redis_calls.reader.writer = "done"
      /\ redis_calls.writer.index_before = {}
      /\ redis_calls.writer.stored_count = Len(redis_calls.writer.embeddings) )
    => \A id \in RedisIds :
          IF DictHas(redis_calls.writer.embeddings, id)
          THEN redis_calls.reader.result[id] =
                  [num |-> DictGet(redis_calls.writer.embeddings, id).vec,
                   densq |-> 1]
          ELSE redis_calls.reader.result[id] = Nil


(***************************************************************************)
(* The claims about the query-embedding cache, checked under SpecCache.    *)
(***************************************************************************)

\* a search whose query is in the cache, and one that inserts its query into a
\* full cache
CachedStep == DictHas(query_embedding_cache, Md5Hex(call'.query))
OverflowStep ==
    /\ ~CachedStep
    /\ call'.emb.ok
    /\ Len(query_embedding_cache) = QueryCacheMax

\* C21: when a search returns the query-embedding cache has at most 100
\* entries; a search that inserts into a cache of 100 entries leaves the 50
\* newest of them followed by the entry it inserted; a search for a cached
\* query does not ask the provider and leaves the cache as it is
C21_QueryCacheBounded ==
    [][ /\ Len(query_embedding_cache') <= QueryCacheMax
        /\ OverflowStep =>
             /\ Len(query_embedding_cache') = QueryCacheMax - QueryCacheEvict + 1
             /\ \A i \in 1..(QueryCacheMax - QueryCacheEvict) :
                   query_embedding_cache'[i] = query_embedding_cache[i + QueryCacheEvict]
             /\ query_embedding_cache'[Len(query_embedding_cache')] =
                   [id |-> Md5Hex(call'.query), vec |-> call'.emb.vec]
        /\ CachedStep =>
             /\ ~call'.asked
             /\ query_embedding_cache' = query_embedding_cache ]_vars

\* a search has just evicted the 50 oldest entries, the first query among them
C21_Witness ==
    /\ call.op = "search"
    /\ call.asked
    /\ call.emb.ok
    /\ Len(query_embedding_cache) = QueryCacheMax - QueryCacheEvict + 1
    /\ ~DictHas(query_embedding_cache, Md5Hex(QueryText(1)))
    /\ query_embedding_cache[Len(query_embedding_cache)].id = Md5Hex(call.query)


(***************************************************************************)
(* The claims about loading the embedding cache, checked under SpecRedis.  *)
(***************************************************************************)

\* C22: a get_all_embeddings that the server answered, on a server nothing is
\* written to, returns every indexed vector that can be deserialized, whether
\* or not another stored string cannot
C22_LoadSkipsBadKey ==
    ( /\ redis_calls.writer.pc = "idle"
      /\ redis_calls.reader.pc = "done"
      /\ redis_calls.reader.replied )
    => \A id \in redis_calls.reader.section_ids :
          redis_keys.embedding[id] # Truncated
          => redis_calls.reader.result[id] = redis_keys.embedding[id]


(***************************************************************************)
(* The claims about indexing runs and the section store, checked under     *)
(* Spec.                                                                   *)
(***************************************************************************)

\* the ids of the stored sections with a non-empty body that had no vector when
\* the last indexing run began
NeedVector ==
    { sections[i].id : i \in { j \in 1..Len(sections) :
          /\ Strip(sections[j].content) # ""
          /\ sections[j].id \notin Range(call.cached_before) } }

\* C23: an indexing run of a processor with an embedding model sends to the
\* provider exactly the sections with a non-empty body and no cached vector
C23_RunSendsExactlyUncached ==
    call.op = "generate" => Range(call.sent_ids) = NeedVector


(***************************************************************************)
(* The claims about section boundaries, checked under SpecPure.            *)
(***************************************************************************)

\* the positions (from 1) of the header lines of the document, the k-th of
\* them, and the position of the first header line after position p (the
\* position after the last line if there is none)
HeaderPositions == { i \in 1..Len(args.lines) : IsHeaderLine(args.lines[i]) }
HeaderAt(k) ==
    CHOOSE p \in HeaderPositions :
        Cardinality({ q \in HeaderPositions : q < p }) = k - 1
NextBoundary(p) ==
    CHOOSE n \in (HeaderPositions \cup {Len(args.lines) + 1}) :
        /\ n > p
        /\ \A q \in HeaderPositions : q > p => n <= q

\* C24: the sectionizer returns one section per header line, in their order,
\* each starting at its header line, with the trimmed join of the lines
\* strictly between this header line and the next one (or the end of the
\* document) as its body: an empty body for a header followed by a header
C24_SectionsFollowHeaders ==
    (ParseReturned /\ HeaderCount >= 1)
    => /\ Len(ret.sections) = HeaderCount
       /\ \A k \in 1..HeaderCount :
             /\ k <= Len(ret.sections)
             /\ ret.sections[k].line_start = HeaderAt(k) - 1
             /\ ret.sections[k].content =
                   Strip(Join(SubSeq(args.lines, HeaderAt(k) + 1,
                                     NextBoundary(HeaderAt(k)) - 1), "\n"))


\* C25: for every document text and source path the sectionizer of
\* RedisDocumentProcessor returns the sequence of sections that the one of
\* DocumentProcessor returns
C25_RedisParserEquivalent == ParseReturned => ret.redis_sections = ret.sections


(***************************************************************************)
(* The claims about reloaded documents, checked under SpecLoad.            *)
(***************************************************************************)

\* the sections of the section lists of the stored documents
CurrentSections == UNION { Range(documents[i].sections) : i \in 1..Len(documents) }

\* C26: after any sequence of loads the section store holds exactly the
\* sections of the stored documents' current section lists
C26_StoreHoldsCurrentSections == Range(sections) = CurrentSections

\* C27: after loads and indexing runs without provider failure, the last of
\* them an indexing run, every vector of the embedding cache that is under the
\* id of a stored section was made of the body this section has now
C27_VectorsOfCurrentBodies ==
    call.op = "generate"
    => \A i \in 1..Len(embedded_from) :
          DictHas(sections, embedded_from[i].id)
          => embedded_from[i].text = DictGet(sections, embedded_from[i].id).content


(***************************************************************************)
(* The claims about the line lists of a hunk, checked under SpecPure.      *)
(***************************************************************************)

\* every hunk returned has old_count entries in old_lines and new_count
\* entries in new_lines
CountsMatchLines ==
    \A i \in 1..Len(ret.hunks) :
       /\ Len(ret.hunks[i].old_lines) = ret.hunks[i].old_count
       /\ Len(ret.hunks[i].new_lines) = ret.hunks[i].new_count

\* C28 as stated: for every pair of texts, and whatever the context, the line
\* lists of every hunk have the lengths of its header's counts
C28_CountsMatchLines == DiffCalled => CountsMatchLines

\* C28 as amended: for every pair of texts and every context_lines >= 0, the
\* line lists of every hunk have the lengths of its header's counts
C28_CountsMatchLinesContext ==
    (DiffCalled /\ args.context_lines >= 0) => CountsMatchLines

\* a removed line that is itself a hunk header, with a context line after it
C28_Witness ==
    /\ DiffCalled
    /\ args.original = "@@ -1 +1 @@\na"
    /\ args.suggested = "a"
    /\ args.context_lines = 1
    /\ Len(ret.hunks) = 1
    /\ ret.hunks[1].old_lines = <<"@@ -1 +1 @@", "a">>
    /\ ret.hunks[1].new_lines = <<"a">>
    /\ ret.hunks[1].old_count = 2


(***************************************************************************)
(* The claims about loads that fail, checked under SpecDir.                *)
(***************************************************************************)

\* a single load of a file that is missing, unreadable or without markdown
FailedLoadStep ==
    /\ call'.op = "load_failed"
    /\ call'.kind \in { "missing", "unreadable", "no_markdown" }

\* the files of the directory just loaded that do, and that do not, load
DirectoryStep == call'.op = "load_directory"
GoodOf(dir) == { i \in 1..Len(dir) : FileKind(dir[i]) = "document" }

\* C29: a single load of a file that is missing, unreadable or without
\* markdown raises DocumentProcessingError and leaves the document store, the
\* section store and the embedding cache as they were; a directory load skips
\* such files and stores the document of every other file of the directory
C29_FailedLoadChangesNothing ==
    [][ /\ FailedLoadStep =>
             /\ call'.raised = "DocumentProcessingError"
             /\ documents' = documents
             /\ sections' = sections
             /\ embeddings' = embeddings
        /\ DirectoryStep =>
             /\ \A i \in GoodOf(call'.files) :
                   /\ DictHas(documents', _generate_doc_id(call'.files[i].path))
                   /\ DictGet(documents', _generate_doc_id(call'.files[i].path)).content
                         = call'.files[i].markdown
             /\ \A i \in 1..Len(call'.files) :
                   i \notin GoodOf(call'.files)
                   => /\ DictHas(documents', _generate_doc_id(call'.files[i].path))
                         = DictHas(documents, _generate_doc_id(call'.files[i].path))
                      /\ ~InList(call'.files[i].path, call'.loaded) ]_vars

\* a directory load has skipped a file without markdown and stored the
\* document of the file after it
C29_Witness ==
    /\ call.op = "load_directory"
    /\ Len(call.files) = 2
    /\ FileKind(call.files[1]) = "no_markdown"
    /\ call.loaded = << "p" >>
    /\ DictHas(documents, _generate_doc_id("p"))
    /\ ~DictHas(documents, _generate_doc_id("r"))

(***************************************************************************)
(* The claim about the suggestions router, checked under SpecSuggestions.  *)
(***************************************************************************)

\* the request just answered was one of the six that name a suggestion id
IdRequestStep ==
    /\ call'.path = "api"
    /\ call'.op \in { "get", "update", "delete", "approve", "reject", "diff" }

\* the entries of a store other than the one of an id
OthersOf(store, id) == DictDel(store, id)

\* C30: a get, update, delete, approve, reject or diff request for an id that
\* is not in the suggestions store answers 404 and leaves the store as it was;
\* approve and reject on a stored id set its status to APPROVED or REJECTED
\* whatever it was before, and delete removes that id and no other
C30_MissingIdIs404 ==
    [][ IdRequestStep =>
          /\ ~DictHas(suggestions_store, call'.suggestion_id)
             => /\ call'.status_code = 404
                /\ suggestions_store' = suggestions_store
          /\ (DictHas(suggestions_store, call'.suggestion_id) /\ call'.op = "approve")
             => /\ DictHas(suggestions_store', call'.suggestion_id)
                /\ DictGet(suggestions_store', call'.suggestion_id).status = "approved"
          /\ (DictHas(suggestions_store, call'.suggestion_id) /\ call'.op = "reject")
             => /\ DictHas(suggestions_store', call'.suggestion_id)
                /\ DictGet(suggestions_store', call'.suggestion_id).status = "rejected"
          /\ (DictHas(suggestions_store, call'.suggestion_id) /\ call'.op = "delete")
             => /\ ~DictHas(suggestions_store', call'.suggestion_id)
                /\ suggestions_store' = OthersOf(suggestions_store, call'.suggestion_id)
      ]_vars

\* a merged suggestion has been approved while another id stays stored, and
\* the request before it found its id missing
C30_Witness ==
    /\ call.path = "api"
    /\ call.op = "approve"
    /\ call.status_code = 200
    /\ Len(suggestions_store) = 2
    /\ DictGet(suggestions_store, call.suggestion_id).status = "approved"
    /\ DictGet(suggestions_store, call.suggestion_id).reviewed_by = "rev"


=============================================================================
